---------------------------- MODULE Spec2Model ----------------------------
(***************************************************************************)
(* A model of the KCL Director: the natural-language command parser        *)
(* (Context / Director.parse) and the scene scheduler (SceneDirector.tick, *)
(* actorTick and the verb handlers move, face, wait, halt, define).        *)
(*                                                                         *)
(* Strings are JavaScript strings; a JavaScript array is a sequence; the   *)
(* value undefined of a verb or an actor reference is the empty string.    *)
(* Context._index is kept 0-based as in the source, so the current token   *)
(* is args[index + 1].                                                     *)
(***************************************************************************)
EXTENDS Integers, Sequences, FiniteSets, TLC

VARIABLES
    scene,      \* SceneState: directions, commands, actors, wait
    dirs,       \* every Direction still referenced, by _id
    queue,      \* Actor.state.directions of every actor
    special,    \* names registered with defineSpecialTarget
    nextId,     \* the next value of _.uniqueId()
    crashed,    \* an exception escaped a handler: the host stops the game
    pc,         \* position of SceneDirector.direct: idle, parse, end
    ctx,        \* the Context being parsed
    dir,        \* the Direction being built by Director.parse
    hist,       \* the line being parsed, the clause reached, the tokens
                \* ADVERB and DEFAULT deferred in it, the actors slice
                \* handed it, the mode it began in, whether VERB met
                \* a marker ! in the clause (history)
    lastOp,     \* the operation that produced this state (history)
    calls,      \* handler invocations of the last tick, in order (history)
    completes,  \* actionStateComplete callbacks of the last tick (history)
    halted,     \* directions present when a HALT ALL handler ran (history)
    completed,  \* the <<direction, actor>> callbacks of all ticks (history)
    looked      \* the last lookup in the registry: function, word, outcome

vars == <<scene, dirs, queue, special, nextId, crashed, pc, ctx, dir,
          hist, lastOp, calls, completes, halted, completed, looked>>

-----------------------------------------------------------------------------
(* Sequences *)

Range(s) == {s[i] : i \in 1..Len(s)}

Contains(s, x) == \E i \in 1..Len(s) : s[i] = x

RECURSIVE Without(_, _)
Without(s, x) ==
    IF s = <<>> THEN <<>>
    ELSE IF Head(s) = x THEN Without(Tail(s), x)
    ELSE <<Head(s)>> \o Without(Tail(s), x)

\* Array.prototype.shift: drop the first element, if any
Shift(s) == IF s = <<>> THEN <<>> ELSE Tail(s)

\* Body of a value that is computed once: var x = value; Body(x)
With(value, Body(_)) == CHOOSE r \in {Body(x) : x \in {value}} : TRUE

-----------------------------------------------------------------------------
(* Characters and the tokenizer, Context.prototype.fromString *)

Ch(s, i) == SubSeq(s, i, i)

LowerCase == "abcdefghijklmnopqrstuvwxyz"
UpperCase == "ABCDEFGHIJKLMNOPQRSTUVWXYZ"
Digits == "0123456789"

IsDigit(c) == \E i \in 1..Len(Digits) : Ch(Digits, i) = c

\* the character class [\w#!]
IsWordChar(c) ==
    \/ \E i \in 1..Len(LowerCase) : Ch(LowerCase, i) = c
    \/ \E i \in 1..Len(UpperCase) : Ch(UpperCase, i) = c
    \/ IsDigit(c)
    \/ c \in {"_", "#", "!"}

upperChar(c) ==
    IF \E i \in 1..Len(LowerCase) : Ch(LowerCase, i) = c
    THEN Ch(UpperCase, CHOOSE i \in 1..Len(LowerCase) : Ch(LowerCase, i) = c)
    ELSE c

RECURSIVE toUpperCase(_)
toUpperCase(s) ==
    IF Len(s) = 0 THEN "" ELSE upperChar(Ch(s, 1)) \o toUpperCase(Tail(s))

\* [\w#!]+ matched at i: the index after the run
RECURSIVE wordEnd(_, _)
wordEnd(s, i) ==
    IF i <= Len(s) /\ IsWordChar(Ch(s, i)) THEN wordEnd(s, i + 1) ELSE i

\* (?:\\"|[^"])+ read greedily from j: where it stops, and the quote of the
\* last \" it took (0 if none)
RECURSIVE quoteBody(_, _, _)
quoteBody(s, j, lastEsc) ==
    IF j > Len(s) THEN [stop |-> j, esc |-> lastEsc]
    ELSE IF Ch(s, j) = "\\" /\ j + 1 <= Len(s) /\ Ch(s, j + 1) = "\""
         THEN quoteBody(s, j + 2, j + 1)
    ELSE IF Ch(s, j) # "\"" THEN quoteBody(s, j + 1, lastEsc)
    ELSE [stop |-> j, esc |-> lastEsc]

\* "(?:\\"|[^"])+" matched at the quote at i: index of the closing quote,
\* 0 if there is no match.  With no bare quote left the match backs off to
\* the last \", whose backslash then counts as an ordinary character.
quoteEnd(s, i) ==
    LET b == quoteBody(s, i + 1, 0) IN
    IF b.stop <= Len(s) THEN (IF b.stop > i + 1 THEN b.stop ELSE 0)
    ELSE b.esc

\* \((?:\\\(|[^\)])+\) matched at the parenthesis at i: index of the closing
\* parenthesis, 0 if there is no match
RECURSIVE parenStop(_, _)
parenStop(s, j) ==
    IF j > Len(s) THEN 0
    ELSE IF Ch(s, j) = ")" THEN j
    ELSE parenStop(s, j + 1)

parenEnd(s, i) ==
    LET e == parenStop(s, i + 1) IN IF e > i + 1 THEN e ELSE 0

\* string.match(/[\w#!]+|"(?:\\"|[^"])+"|\((?:\\\(|[^\)])+\)/g)
RECURSIVE matchTokens(_, _)
matchTokens(s, i) ==
    IF i > Len(s) THEN <<>>
    ELSE IF IsWordChar(Ch(s, i))
         THEN <<SubSeq(s, i, wordEnd(s, i) - 1)>> \o matchTokens(s, wordEnd(s, i))
    ELSE IF Ch(s, i) = "\"" /\ quoteEnd(s, i) > 0
         THEN <<SubSeq(s, i, quoteEnd(s, i))>> \o matchTokens(s, quoteEnd(s, i) + 1)
    ELSE IF Ch(s, i) = "(" /\ parenEnd(s, i) > 0
         THEN <<SubSeq(s, i, parenEnd(s, i))>> \o matchTokens(s, parenEnd(s, i) + 1)
    ELSE matchTokens(s, i + 1)

\* the args of Context.prototype.fromString(string); match() gives null on
\* no match at all and .map then throws (fromStringThrows)
fromString(string) ==
    LET m == matchTokens(string, 1) IN [i \in 1..Len(m) |-> toUpperCase(m[i])]

fromStringThrows(string) == matchTokens(string, 1) = <<>>

\* Array.prototype.join(" ")
RECURSIVE join(_)
join(words) ==
    IF words = <<>> THEN ""
    ELSE IF Len(words) = 1 THEN words[1]
    ELSE words[1] \o " " \o join(Tail(words))

-----------------------------------------------------------------------------
(* The grammar registry: Speech, FillerWords, ContextSwitches, the verbs,  *)
(* prepositions and special targets SceneDirector registers               *)

AND == "AND"

Actor == "ACTOR"
Director == "DIRECTOR"

\* the events of the map, by name (the host's $gameMap.events())
EventNames == {"A", "B", "X"}

\* FillerWords[state]
FillerWords(state) ==
    CASE state = "actor" -> <<"THE", "WITH">>
      [] state = "verb" -> <<"TO">>
      [] state = "preposition" -> <<"TO", "THE", "OF">>
      [] OTHER -> <<>>

PrepositionalUnits ==
    {"SQUARE", "SQUARES", "SPACE", "SPACES", "BLOCKS", "TILE", "TILES",
     "FOOT", "FEET", "METER", "METERS", "STEP", "STEPS"}

\* Verb(config): the defaults of the constructor
verbDefaults ==
    [verb |-> "", alias |-> <<>>, handler |-> "", actionStateComplete |-> FALSE,
     requiresTargetBeforeAdverbs |-> FALSE, defaultAsync |-> FALSE,
     adverbs |-> <<>>, prepositions |-> <<>>, initialState |-> "adverb",
     fillerWords |-> <<>>, contextSwitches |-> {}, interrupt |-> FALSE]

facePrepositions ==
    <<"NORTH", "SOUTH", "EAST", "WEST", "LEFT", "RIGHT", "UP", "DOWN",
      "TOWARD", "AWAY">>

\* this.verbs of SceneDirector; a context switch is <<state, word, new state>>
verbs ==
    << [verbDefaults EXCEPT !.verb = "MOVE", !.alias = <<"HEAD", "MOVES", "HEADS">>,
            !.handler = "move", !.actionStateComplete = TRUE,
            !.adverbs = <<"SLOWLY", "QUICKLY">>],
       [verbDefaults EXCEPT !.verb = "WALK", !.alias = <<"WALKS">>,
            !.handler = "move", !.actionStateComplete = TRUE,
            !.adverbs = <<"SLOWLY", "QUICKLY">>],
       [verbDefaults EXCEPT !.verb = "RUN", !.alias = <<"RUNS">>,
            !.handler = "move", !.actionStateComplete = TRUE,
            !.adverbs = <<"SLOWLY", "QUICKLY">>],
       [verbDefaults EXCEPT !.verb = "FOLLOW", !.alias = <<"FOLLOWS">>,
            !.handler = "move", !.actionStateComplete = TRUE,
            !.requiresTargetBeforeAdverbs = TRUE, !.defaultAsync = TRUE,
            !.adverbs = <<"SLOWLY", "QUICKLY">>],
       [verbDefaults EXCEPT !.verb = "FACE", !.alias = <<"FACES">>,
            !.handler = "face", !.requiresTargetBeforeAdverbs = TRUE,
            !.prepositions = facePrepositions],
       [verbDefaults EXCEPT !.verb = "TURN", !.alias = <<"TURNS">>,
            !.handler = "face", !.prepositions = facePrepositions],
       [verbDefaults EXCEPT !.verb = "WAIT", !.handler = "wait",
            !.requiresTargetBeforeAdverbs = TRUE],
       [verbDefaults EXCEPT !.verb = "HALT", !.handler = "halt",
            !.interrupt = TRUE],
       [verbDefaults EXCEPT !.verb = "DEFINE", !.handler = "define",
            !.adverbs = <<"GROUP">>,
            !.contextSwitches = {<<"default", "NAMED", "token">>,
                                 <<"token", "AS", "target">>}] >>

\* this.prepositions of SceneDirector (every one keeps contextSwitch: true)
prepositions ==
    <<"NORTH", "SOUTH", "EAST", "WEST", "LEFT", "RIGHT", "UP", "DOWN", "TOP",
      "BOTTOM", "OVER", "ABOVE", "BELOW", "TOWARD", "AWAY">>

\* defineVerb: _verbs[word], the last verb registered under the word
verbIndex(word) ==
    {i \in 1..Len(verbs) : verbs[i].verb = word \/ Contains(verbs[i].alias, word)}

\* Director.prototype.getVerb: the canonical name, "" for undefined
getVerb(word) ==
    IF verbIndex(word) = {} THEN ""
    ELSE verbs[CHOOSE i \in verbIndex(word) : \A j \in verbIndex(word) : j <= i].verb

\* the Verb object of a canonical name
VerbOf(name) == verbs[CHOOSE i \in 1..Len(verbs) : verbs[i].verb = name]

\* Director.prototype.getPreposition: the name, "" for undefined
getPreposition(word) == IF Contains(prepositions, word) THEN word ELSE ""

\* the literal ContextSwitches table
literalSwitch(state, word) ==
    CASE state = "default" /\ word = "WITH" -> "with"
      [] state = "default" /\ word = "TO" -> "target"
      [] state = "default" /\ word = "TOWARD" -> "target"
      [] state = "default" /\ word = "CONDITION" -> "condition"
      [] state = "default" /\ word = "UNTIL" -> "condition"
      [] state = "default" /\ word = "FOR" -> "duration"
      [] state = "default" /\ word = "THEN" -> "end"
      [] state = "default" /\ word = "WHILE" -> "endAsync"
      [] state = "default" /\ word = "REPEAT" -> "repeat"
      [] state = "preposition" /\ word = "WITH" -> "with"
      [] state = "preposition" /\ word = "TO" -> "target"
      [] state = "preposition" /\ word = "UNTIL" -> "condition"
      [] state = "preposition" /\ word = "FOR" -> "duration"
      [] state = "preposition" /\ word = "THEN" -> "end"
      [] state = "preposition" /\ word = "WHILE" -> "endAsync"
      [] OTHER -> ""

\* ContextSwitches once definePreposition has run for every preposition:
\* ContextSwitches.default[name] = Speech.PREPOSITION
ContextSwitches(state, word) ==
    IF state = "default" /\ getPreposition(word) # "" THEN "preposition"
    ELSE literalSwitch(state, word)

\* verb.contextSwitches[state][word], "" for undefined
verbSwitch(verb, state, word) ==
    LET hit == {t \in VerbOf(verb).contextSwitches : t[1] = state /\ t[2] = word}
    IN IF hit = {} THEN "" ELSE (CHOOSE t \in hit : TRUE)[3]

\* States which must share the same context switches as the Default
DefaultStates == {"adverb"}

-----------------------------------------------------------------------------
(* Actors and targets *)

\* target.match(/#(\d)/): the length of the match array, 0 for null
RECURSIVE eventIdMatch(_, _)
eventIdMatch(target, i) ==
    IF i + 1 > Len(target) THEN 0
    ELSE IF Ch(target, i) = "#" /\ IsDigit(Ch(target, i + 1)) THEN 2
    ELSE eventIdMatch(target, i + 1)

\* SceneDirector.prototype.getGameEvent: with a match array of length 1 the
\* event of that id, else the event whose upper-cased name is the target
getGameEvent(target) ==
    IF eventIdMatch(target, 1) = 1 THEN "#"
    ELSE IF target \in EventNames THEN target ELSE ""

\* SceneDirector.prototype.getActor through getGameActor: the actor (known
\* by its name), "" for undefined
getActor(target) ==
    IF target \in special THEN target ELSE getGameEvent(target)

\* Director.prototype.getSpecialTarget: this._specialTargets[target].call;
\* for a name that is not registered the entry is undefined and the call
\* throws a TypeError
getSpecialTarget(registry, target) ==
    [value |-> IF target \in registry THEN target ELSE "",
     thrown |-> target \notin registry]

\* Director.prototype.defineSpecialTarget
defineSpecialTarget(registry, name) == registry \cup {toUpperCase(name)}

NoTarget == [kind |-> "none", actor |-> "", x |-> 0, y |-> 0]

\* Target.prototype.fromCoordinates
fromCoordinates(x, y) == [kind |-> "coords", actor |-> "", x |-> x, y |-> y]

\* Target.prototype.fromActor: undefined for no actor; the position of an
\* actor is the host's and is read again on every use
fromActor(actor) ==
    IF actor = "" THEN NoTarget
    ELSE [kind |-> "actor", actor |-> actor, x |-> 0, y |-> 0]

\* parseInt(s, 10) of a token: the leading digits, -1 for NaN
RECURSIVE digitsValue(_, _, _)
digitsValue(s, i, acc) ==
    IF i <= Len(s) /\ IsDigit(Ch(s, i))
    THEN digitsValue(s, i + 1,
            10 * acc + (CHOOSE k \in 0..9 : Ch(Digits, k + 1) = Ch(s, i)))
    ELSE acc

NaN == -1

parseInt(s) ==
    IF Len(s) > 0 /\ IsDigit(Ch(s, 1)) THEN digitsValue(s, 1, 0) ELSE NaN

\* target.match(/[(\d),(\d)]/): the match array; the pattern is one
\* character class, so the array holds the first character of the target
\* that is a digit, a comma or a parenthesis, and is empty for null
RECURSIVE coordMatch(_, _)
coordMatch(target, i) ==
    IF i > Len(target) THEN <<>>
    ELSE IF IsDigit(Ch(target, i)) \/ Ch(target, i) \in {"(", ")", ","}
         THEN <<Ch(target, i)>>
    ELSE coordMatch(target, i + 1)

\* SceneDirector.prototype.getTarget (Director.prototype.getTarget gives
\* undefined)
getTarget(target) ==
    LET matches == coordMatch(target, 1) IN
    IF Len(matches) = 2
    THEN fromCoordinates(parseInt(matches[1]), parseInt(matches[2]))
    ELSE fromActor(getActor(target))

isTarget(t) == t.kind # "none"

-----------------------------------------------------------------------------
(* Context *)

Context(args) ==
    [directedTo |-> "", args |-> args, index |-> 0, state |-> "actor",
     verb |-> "", actors |-> <<>>, deferred |-> <<>>, unknown |-> <<>>,
     retry |-> FALSE, previousVerb |-> "", isDeferred |-> FALSE,
     requestAsync |-> FALSE, chained |-> FALSE, data |-> "null"]

\* Context.prototype.current / next: "" for undefined
current(c) == IF c.index < Len(c.args) THEN c.args[c.index + 1] ELSE ""

next(c) == IF c.index + 1 < Len(c.args) THEN c.args[c.index + 2] ELSE ""

hasMore(c) == Len(c.args) > c.index

hasNext(c) == Len(c.args) > c.index + 1

\* an advance that honours the retry and leaves it requested
advanceKeepsRetry(c) ==
    IF ~c.retry THEN [c EXCEPT !.index = c.index + 1] ELSE c

\* Context.prototype.advance
advance(c) ==
    IF ~c.retry THEN [c EXCEPT !.index = c.index + 1]
    ELSE [c EXCEPT !.retry = FALSE]

\* Context.prototype.retry
retry(c) == [c EXCEPT !.retry = TRUE]

\* Array.prototype.splice(start, 0, items...): start is clamped to the length
splice(array, start, items) ==
    LET pos == IF start > Len(array) THEN Len(array) ELSE start IN
    SubSeq(array, 1, pos) \o items \o SubSeq(array, pos + 1, Len(array))

\* Context.prototype.addUnknown
addUnknown(c, words) == [c EXCEPT !.unknown = c.unknown \o words]

\* Context.prototype.setState
setState(c, state) ==
    LET c1 == [c EXCEPT !.state = state, !.data = "null"] IN
    IF c1.deferred # <<>>
    THEN IF state # "end" /\ state # "endAsync"
         THEN [c1 EXCEPT !.args = splice(c1.args, c1.index + 1, c1.deferred),
                         !.deferred = <<>>]
         ELSE [addUnknown(c1, c1.deferred) EXCEPT !.deferred = <<>>]
    ELSE c1

\* _.pullAt(array, index): the array without the element at the 0-based index
pullAt(array, index) ==
    SubSeq(array, 1, index) \o SubSeq(array, index + 2, Len(array))

\* a defer that asks for the retry and leaves the word in the tokens
deferInPlace(c) == retry(c)

\* Context.prototype.defer
defer(c) ==
    retry([c EXCEPT !.args = pullAt(c.args, c.index),
                    !.deferred = c.deferred \o <<current(c)>>])

\* Context.prototype.isDeferred: _isDeferred, which nothing ever assigns
isDeferred(c) == c.isDeferred

\* Context.prototype.setDeferred: assigns false to _deferred, the buffer (not
\* to _isDeferred), whatever its argument; the buffer is then empty
setDeferred(c) == [c EXCEPT !.deferred = <<>>]

\* Context.prototype.mutate
mutate(c, value) == [c EXCEPT !.args[c.index + 1] = value]

\* Context.prototype.slice
slice(c) ==
    [setState([Context(SubSeq(c.args, c.index + 1, Len(c.args)))
                  EXCEPT !.actors = c.actors], "verb")
        EXCEPT !.directedTo = c.directedTo,
               !.requestAsync = c.requestAsync,
               !.previousVerb = c.verb,
               !.chained = TRUE]

-----------------------------------------------------------------------------
(* Direction, DirectionState, PrepositionalPhrase, Condition *)

NoAmount == -1

PrepositionalPhrase(preposition) ==
    [preposition |-> preposition, active |-> TRUE, amount |-> NoAmount,
     unit |-> "", targets |-> <<>>]

\* PrepositionalPhrase.prototype.setAmount of a token
setAmount(phrase, amt) ==
    IF parseInt(amt) # NaN THEN [phrase EXCEPT !.amount = parseInt(amt)] ELSE phrase

\* PrepositionalPhrase.prototype.setUnit
setUnit(phrase, unit) ==
    IF unit \in PrepositionalUnits THEN [phrase EXCEPT !.unit = unit] ELSE phrase

hasAmount(phrase) == phrase.amount # NoAmount

hasUnit(phrase) == phrase.unit # ""

Condition == [target |-> NoTarget, comparator |-> "", value |-> ""]

\* Condition.prototype.isValid
isValid(condition) ==
    /\ isTarget(condition.target)
    /\ condition.comparator # ""
    /\ condition.value # ""
    /\ condition.target.actor # ""

\* Direction(context) with its DirectionState; as is _actionStates in
\* insertion order
Direction(id, directedTo) ==
    [id |-> id, actors |-> <<>>, verb |-> "", adverbs |-> <<>>,
     hasCondition |-> FALSE, condition |-> Condition, prepositions |-> <<>>,
     with |-> <<>>, hasDuration |-> FALSE, targets |-> <<>>, async |-> FALSE,
     tokens |-> <<>>, directedTo |-> directedTo,
     status |-> "init", waitOn |-> TRUE, as |-> <<>>]

hasActor(d) == Len(d.actors) > 0

hasVerb(d) == d.verb # ""

hasTarget(d) == d.targets # <<>>

-----------------------------------------------------------------------------
(* Director.prototype.parse: p holds the context c, the direction d, the   *)
(* local unknown and whether an exception was thrown                       *)

\* Director.prototype.isFiller
isFiller(c) ==
    Contains(FillerWords(c.state)
                \o (IF c.verb # "" THEN VerbOf(c.verb).fillerWords ELSE <<>>),
             current(c))

\* a lookup in the global table alone
switchOfGlobal(c) ==
    ContextSwitches(IF c.state \in DefaultStates THEN "default" ELSE c.state, current(c))

\* the switch word's new state in the merged table, "" for undefined
switchOf(c) ==
    LET currentState == IF c.state \in DefaultStates THEN "default" ELSE c.state IN
    IF c.verb # "" /\ VerbOf(c.verb).contextSwitches # {}
       /\ verbSwitch(c.verb, currentState, current(c)) # ""
    THEN verbSwitch(c.verb, currentState, current(c))
    ELSE ContextSwitches(currentState, current(c))

\* Director.prototype.contextSwitch
contextSwitch(c) == IF switchOf(c) # "" THEN setState(c, switchOf(c)) ELSE c

\* a head of parse that leaves the async request of the Context set
parseBeginKeeps(c, id) ==
    LET d0 == Direction(id, c.directedTo)
        d1 == IF c.requestAsync THEN [d0 EXCEPT !.async = TRUE] ELSE d0
        d2 == IF c.chained /\ c.actors # <<>> /\ getActor(current(c)) = ""
              THEN [d1 EXCEPT !.actors = c.actors] ELSE d1
    IN [c |-> c, d |-> d2, unknown |-> FALSE, thrown |-> FALSE]

\* the head of parse: new Direction, the async request, the carried actors
parseBegin(c, id) ==
    LET d0 == Direction(id, c.directedTo)
        d1 == IF c.requestAsync THEN [d0 EXCEPT !.async = TRUE] ELSE d0
        c1 == [c EXCEPT !.requestAsync = FALSE]
        d2 == IF c1.chained /\ c1.actors # <<>> /\ getActor(current(c1)) = ""
              THEN [d1 EXCEPT !.actors = c1.actors] ELSE d1
    IN [c |-> c1, d |-> d2, unknown |-> FALSE, thrown |-> FALSE]

caseActor(p) ==
    LET actor == getActor(current(p.c))
        c1 == IF actor # "" THEN [p.c EXCEPT !.actors = p.c.actors \o <<actor>>]
              ELSE p.c
        d1 == IF actor # "" THEN [p.d EXCEPT !.actors = p.d.actors \o <<actor>>]
              ELSE p.d
    IN [p EXCEPT !.d = d1,
                 !.c = IF hasNext(c1) /\ next(c1) = AND THEN advance(c1)
                       ELSE setState(c1, "verb")]

\* String.prototype.endsWith('!')
endsWithBang(s) == Len(s) > 0 /\ Ch(s, Len(s)) = "!"

\* the state a bound verb selects
afterVerb(c, verb) ==
    IF VerbOf(verb).adverbs = <<>> \/ VerbOf(verb).requiresTargetBeforeAdverbs
    THEN setState(c, "default")
    ELSE setState(c, VerbOf(verb).initialState)

\* a VERB case that reuses the previous verb and consumes the token
caseVerbConsumes(p) ==
    LET c0 == IF endsWithBang(current(p.c))
              THEN [mutate(p.c, SubSeq(current(p.c), 1, Len(current(p.c)) - 1))
                       EXCEPT !.directedTo = Director]
              ELSE p.c
        found == getVerb(current(c0))
        \* context.isChained, never called, is a function and so is true
        asActor == found = "" /\ getActor(current(c0)) # ""
        verb == IF found # "" THEN found
                ELSE IF ~asActor /\ c0.previousVerb # "" THEN c0.previousVerb
                ELSE ""
        c1 == IF found # "" THEN [c0 EXCEPT !.verb = found]
              ELSE IF asActor THEN retry(setState(c0, "actor"))
              ELSE IF c0.previousVerb # ""
                   THEN [c0 EXCEPT !.verb = c0.previousVerb]
              ELSE setState(c0, "default")
    IN IF verb # ""
       THEN [p EXCEPT !.c = afterVerb(c1, verb),
                      !.d = [p.d EXCEPT !.verb = verb,
                                        !.async = p.d.async \/ VerbOf(verb).defaultAsync,
                                        !.directedTo = c1.directedTo]]
       ELSE [p EXCEPT !.c = c1, !.d = [p.d EXCEPT !.directedTo = c1.directedTo]]

\* a VERB case that strips the marker and leaves the mode of the Context
caseVerbStrips(p) ==
    LET c0 == IF endsWithBang(current(p.c))
              THEN mutate(p.c, SubSeq(current(p.c), 1, Len(current(p.c)) - 1))
              ELSE p.c
        found == getVerb(current(c0))
        \* context.isChained, never called, is a function and so is true
        asActor == found = "" /\ getActor(current(c0)) # ""
        verb == IF found # "" THEN found
                ELSE IF ~asActor /\ c0.previousVerb # "" THEN c0.previousVerb
                ELSE ""
        c1 == IF found # "" THEN [c0 EXCEPT !.verb = found]
              ELSE IF asActor THEN retry(setState(c0, "actor"))
              ELSE IF c0.previousVerb # ""
                   THEN retry([c0 EXCEPT !.verb = c0.previousVerb])
              ELSE setState(c0, "default")
    IN IF verb # ""
       THEN [p EXCEPT !.c = afterVerb(c1, verb),
                      !.d = [p.d EXCEPT !.verb = verb,
                                        !.async = p.d.async \/ VerbOf(verb).defaultAsync,
                                        !.directedTo = c1.directedTo]]
       ELSE [p EXCEPT !.c = c1, !.d = [p.d EXCEPT !.directedTo = c1.directedTo]]

caseVerb(p) ==
    LET c0 == IF endsWithBang(current(p.c))
              THEN [mutate(p.c, SubSeq(current(p.c), 1, Len(current(p.c)) - 1))
                       EXCEPT !.directedTo = Director]
              ELSE p.c
        found == getVerb(current(c0))
        \* context.isChained, never called, is a function and so is true
        asActor == found = "" /\ getActor(current(c0)) # ""
        verb == IF found # "" THEN found
                ELSE IF ~asActor /\ c0.previousVerb # "" THEN c0.previousVerb
                ELSE ""
        c1 == IF found # "" THEN [c0 EXCEPT !.verb = found]
              ELSE IF asActor THEN retry(setState(c0, "actor"))
              ELSE IF c0.previousVerb # ""
                   THEN retry([c0 EXCEPT !.verb = c0.previousVerb])
              ELSE setState(c0, "default")
    IN IF verb # ""
       THEN [p EXCEPT !.c = afterVerb(c1, verb),
                      !.d = [p.d EXCEPT !.verb = verb,
                                        !.async = p.d.async \/ VerbOf(verb).defaultAsync,
                                        !.directedTo = c1.directedTo]]
       ELSE [p EXCEPT !.c = c1, !.d = [p.d EXCEPT !.directedTo = c1.directedTo]]

caseAdverb(p) ==
    IF Contains(VerbOf(p.d.verb).adverbs, current(p.c))
    THEN [p EXCEPT !.d = [p.d EXCEPT !.adverbs = p.d.adverbs \o <<current(p.c)>>]]
    ELSE [p EXCEPT !.c = defer(p.c)]

caseDefault(p) ==
    IF ~hasTarget(p.d) /\ isTarget(getTarget(current(p.c)))
    THEN [p EXCEPT !.c = retry(setState(p.c, "target"))]
    ELSE IF isDeferred(p.c)
         THEN [p EXCEPT !.unknown = TRUE,
                        !.c = addUnknown(p.c, <<current(p.c)>>)]
         ELSE [p EXCEPT !.c = defer(p.c)]

\* context.data is the phrase last added to the direction
casePreposition(p) ==
    LET n == Len(p.d.prepositions) IN
    IF p.c.data # "null"
    THEN LET phrase == p.d.prepositions[n]
             cur == current(p.c)
             phrase1 ==
                 IF isTarget(getTarget(cur))
                 THEN [phrase EXCEPT !.targets = phrase.targets \o <<getTarget(cur)>>]
                 ELSE IF ~hasAmount(phrase) THEN setAmount(phrase, cur)
                 ELSE IF ~hasUnit(phrase) THEN setUnit(phrase, cur)
                 ELSE phrase
         IN [p EXCEPT !.d = [p.d EXCEPT !.prepositions[n] = phrase1]]
    ELSE IF getPreposition(current(p.c)) # ""
         THEN [p EXCEPT !.c = [p.c EXCEPT !.data = "phrase"],
                        !.d = [p.d EXCEPT !.prepositions =
                                  p.d.prepositions
                                    \o <<PrepositionalPhrase(getPreposition(current(p.c)))>>]]
         ELSE p

\* the second token finds no method hasDuration on Duration: TypeError
caseDuration(p) ==
    IF p.c.data = "null" THEN [p EXCEPT !.c = [p.c EXCEPT !.data = "duration"]]
    ELSE [p EXCEPT !.thrown = TRUE]

caseTarget(p) ==
    LET target == getTarget(current(p.c))
        d1 == IF isTarget(target)
              THEN [p.d EXCEPT !.targets = p.d.targets \o <<target>>] ELSE p.d
    IN [p EXCEPT !.d = d1,
                 !.c = IF hasNext(p.c) /\ next(p.c) = AND THEN advance(p.c)
                       ELSE IF hasVerb(d1) /\ VerbOf(d1.verb).requiresTargetBeforeAdverbs
                            THEN setState(p.c, "adverb")
                       ELSE setState(p.c, "default")]

\* a WITH case that also adds the actor to the actors of the context
caseWithChained(p) ==
    IF p.c.data # "null"
    THEN LET target == getActor(current(p.c))
             d1 == IF target # "" THEN [p.d EXCEPT !.with = p.d.with \o <<target>>]
                   ELSE p.d
             c1 == IF target # "" THEN [p.c EXCEPT !.actors = p.c.actors \o <<target>>]
                   ELSE p.c
         IN [p EXCEPT !.d = d1,
                      !.c = IF hasNext(c1) /\ next(c1) = AND THEN advance(c1)
                            ELSE setState(c1, "default")]
    ELSE [p EXCEPT !.c = [p.c EXCEPT !.data = "with"]]

\* context.data is direction._with, an array, which is true even when empty
caseWith(p) ==
    IF p.c.data # "null"
    THEN LET target == getActor(current(p.c))
             d1 == IF target # "" THEN [p.d EXCEPT !.with = p.d.with \o <<target>>]
                   ELSE p.d
         IN [p EXCEPT !.d = d1,
                      !.c = IF hasNext(p.c) /\ next(p.c) = AND THEN advance(p.c)
                            ELSE setState(p.c, "default")]
    ELSE [p EXCEPT !.c = [p.c EXCEPT !.data = "with"]]

\* context.data is the direction's condition
caseCondition(p) ==
    IF p.c.data = "null"
    THEN [p EXCEPT !.c = [p.c EXCEPT !.data = "condition"],
                   !.d = [p.d EXCEPT !.hasCondition = TRUE, !.condition = Condition]]
    ELSE LET condition == p.d.condition
             cur == current(p.c)
             condition1 ==
                 IF ~isTarget(condition.target)
                 THEN [condition EXCEPT !.target = getTarget(cur)]
                 ELSE IF condition.comparator = ""
                      THEN [condition EXCEPT !.comparator = cur]
                 ELSE IF condition.value = "" THEN [condition EXCEPT !.value = cur]
                 ELSE condition
         IN [p EXCEPT !.d = [p.d EXCEPT !.condition = condition1],
                      !.c = IF isValid(condition1) THEN setState(p.c, "default")
                            ELSE p.c]

\* the second token calls Repeat.prototype.setAmount, which reads the
\* undeclared amt: ReferenceError
caseRepeat(p) ==
    IF p.c.data = "null" THEN [p EXCEPT !.c = [p.c EXCEPT !.data = "repeat"]]
    ELSE [p EXCEPT !.thrown = TRUE]

caseToken(p) ==
    IF p.c.data = "null" THEN [p EXCEPT !.c = [p.c EXCEPT !.data = "token"]]
    ELSE [p EXCEPT !.d = [p.d EXCEPT !.tokens = p.d.tokens \o <<current(p.c)>>]]

caseEndAsync(p) ==
    [p EXCEPT !.c = setState([p.c EXCEPT !.requestAsync = TRUE], "end")]

\* switch (context.getState())
stateCase(p) ==
    CASE p.c.state = "actor" -> caseActor(p)
      [] p.c.state = "verb" -> caseVerb(p)
      [] p.c.state = "adverb" -> caseAdverb(p)
      [] p.c.state = "default" -> caseDefault(p)
      [] p.c.state = "preposition" -> casePreposition(p)
      [] p.c.state = "duration" -> caseDuration(p)
      [] p.c.state = "target" -> caseTarget(p)
      [] p.c.state = "with" -> caseWith(p)
      [] p.c.state = "condition" -> caseCondition(p)
      [] p.c.state = "repeat" -> caseRepeat(p)
      [] p.c.state = "token" -> caseToken(p)
      [] p.c.state = "endAsync" -> caseEndAsync(p)
      [] OTHER -> p

\* while (context.getState() != Speech.END && context.hasMore())
parseLoops(p) == p.c.state # "end" /\ hasMore(p.c) /\ ~p.thrown

\* one iteration of the loop of parse
parseIter(p) ==
    With(IF ~isFiller(p.c)
         THEN stateCase([p EXCEPT !.c = contextSwitch(p.c), !.unknown = FALSE])
         ELSE p,
         LAMBDA p1 :
            IF p1.thrown THEN p1
            ELSE [p1 EXCEPT !.c = advance(IF isDeferred(p1.c) /\ ~p1.unknown
                                          THEN setDeferred(p1.c) ELSE p1.c)])

\* Director.prototype.parse from its loop on, up to the return
RECURSIVE parseRun(_)
parseRun(p) == IF parseLoops(p) THEN parseRun(parseIter(p)) ELSE p

-----------------------------------------------------------------------------
(* The scene. S is the director's state while an operation runs: scene,    *)
(* the directions by id (dirs), every actor's ActorState.directions        *)
(* (queue), the special targets, the next direction id, the handler calls  *)
(* and completion callbacks of the operation, and whether it has thrown    *)

\* SceneActor.prototype.id as the key of _actionStates: -1 for the player,
\* undefined for every other actor
id(actor) == IF actor = "PLAYER" THEN "-1" ELSE "undefined"

\* a special target other than the player is a group: its SceneActor wraps
\* the array of targets and has none of the host's character methods
isGroup(S, actor) == actor \in S.special /\ actor # "PLAYER"

\* ActorState.directions of an actor
directions(q, actor) == IF actor \in DOMAIN q THEN q[actor] ELSE <<>>

\* ActorState.prototype.push
push(q, actor, d) ==
    [a \in DOMAIN q \cup {actor} |->
        IF a = actor THEN Append(directions(q, a), d) ELSE q[a]]

RECURSIVE pushEach(_, _, _)
pushEach(q, actors, d) ==
    IF actors = <<>> THEN q ELSE pushEach(push(q, Head(actors), d), Tail(actors), d)

\* SceneState.prototype.activate
RECURSIVE activate(_, _)
activate(sceneActors, actor) ==
    IF actor = <<>> THEN sceneActors
    ELSE activate(IF Contains(sceneActors, Head(actor)) THEN sceneActors
                  ELSE Append(sceneActors, Head(actor)),
                  Tail(actor))

\* an assign that queues the direction for its bound actors only
assignBound(S, direction) ==
    LET S1 == [S EXCEPT !.dirs = [i \in DOMAIN S.dirs \cup {direction.id} |->
                                    IF i = direction.id THEN direction ELSE S.dirs[i]]]
    IN IF hasActor(direction) /\ direction.directedTo = Actor
       THEN [S1 EXCEPT !.scene.actors = activate(@, direction.actors \o direction.with),
                       !.queue = pushEach(@, direction.actors, direction.id),
                       !.scene.directions = Append(@, direction.id)]
       ELSE [S1 EXCEPT !.scene.commands = Append(@, direction.id)]

\* SceneState.prototype.assign
assign(S, direction) ==
    LET S1 == [S EXCEPT !.dirs = [i \in DOMAIN S.dirs \cup {direction.id} |->
                                    IF i = direction.id THEN direction ELSE S.dirs[i]]]
        actors == direction.actors \o direction.with
    IN IF hasActor(direction) /\ direction.directedTo = Actor
       THEN [S1 EXCEPT !.scene.actors = activate(@, actors),
                       !.queue = pushEach(@, actors, direction.id),
                       !.scene.directions = Append(@, direction.id)]
       ELSE [S1 EXCEPT !.scene.commands = Append(@, direction.id)]

\* SceneDirector.prototype.direct up to the parse
directBegin(context) ==
    IF context.directedTo = Director THEN setState(context, "verb") ELSE context

\* a test of direct that asks for a verb only
directAssignsVerbOnly(p) == hasVerb(p.d)

\* the test of direct on the parsed direction
directAssigns(p) ==
    hasVerb(p.d) /\ (p.c.directedTo = Director \/ hasActor(p.d))

\* SceneDirector.prototype.direct from the parsed direction on
RECURSIVE directParsed(_, _)
directParsed(S, p) ==
    IF p.thrown THEN [S EXCEPT !.thrown = TRUE]
    ELSE IF directAssigns(p)
         THEN With(assign([S EXCEPT !.nextId = @ + 1], p.d),
                   LAMBDA S1 :
                      IF hasMore(p.c)
                      THEN directParsed(S1,
                               parseRun(parseBegin(directBegin(slice(p.c)), S1.nextId)))
                      ELSE S1)
    ELSE S

\* SceneDirector.prototype.direct
direct(S, context) ==
    directParsed(S, parseRun(parseBegin(directBegin(context), S.nextId)))

\* Game_Interpreter.prototype.pluginCommand
pluginCommand(S, command, args) ==
    LET directedTo == IF toUpperCase(command) = "DIRECT" THEN Actor ELSE Director IN
    IF toUpperCase(command) \notin {"DIRECT", "DIRECTOR"} THEN S
    ELSE IF fromStringThrows(join(args)) THEN [S EXCEPT !.thrown = TRUE]
    ELSE direct(S, [Context(fromString(join(args))) EXCEPT !.directedTo = directedTo])

-----------------------------------------------------------------------------
(* ActionStates and the verb handlers. A handler works on r, the direction *)
(* d and whether it has thrown; O is what the host reports in this tick:   *)
(* O.done the <<direction, actor>> steps that end the movement, O.met the  *)
(* <<direction, actor>> pairs whose condition is met                       *)

\* new ActionState(actor, direction); target tells whether target is set
ActionState(actor) ==
    [key |-> id(actor), status |-> "init", actor |-> actor, persist |-> FALSE,
     target |-> FALSE]

hasActionState(d, actor) == \E i \in 1..Len(d.as) : d.as[i].key = id(actor)

\* DirectionState.prototype.actionState(actor): get or create
actionState(d, actor) ==
    IF hasActionState(d, actor) THEN d
    ELSE [d EXCEPT !.as = Append(@, ActionState(actor))]

\* the place in _actionStates of the state actionState(actor) returns
at(d, actor) == CHOOSE i \in 1..Len(d.as) : d.as[i].key = id(actor)

\* DirectionState.prototype.actorDone
actorDone(d, actor) ==
    [d EXCEPT !.as = SubSeq(@, 1, at(d, actor) - 1)
                        \o SubSeq(@, at(d, actor) + 1, Len(@))]

\* DirectionState.prototype.hasAnyActors
hasAnyActors(d) == d.as # <<>>

\* every ActionState of the direction set to one status
setAll(d, from, to) ==
    [d EXCEPT !.as = [i \in 1..Len(d.as) |->
                        IF d.as[i].status \in from
                        THEN [d.as[i] EXCEPT !.status = to] ELSE d.as[i]]]

\* the actors of the ActionStates with a status, in order
RECURSIVE actorsWith(_, _)
actorsWith(as, status) ==
    IF as = <<>> THEN <<>>
    ELSE (IF Head(as).status = status THEN <<Head(as).actor>> ELSE <<>>)
         \o actorsWith(Tail(as), status)

\* extent with every unit taken as one step
extentUnconverted(phrase) == IF hasAmount(phrase) THEN phrase.amount ELSE 1

\* PrepositionalPhrase.prototype.extent
extent(phrase) ==
    IF hasAmount(phrase)
    THEN (IF phrase.unit \in {"METER", "METERS"} THEN 3 ELSE 1) * phrase.amount
    ELSE 1

\* Target.prototype.coords; the position of an actor is the host's and is
\* taken as the origin
coords(target) == [x |-> target.x, y |-> target.y]

\* Coords.prototype.shift
shift(c, x, y) == [x |-> c.x + x, y |-> c.y + y]

\* Target.prototype.fromCoords
fromCoords(c) == fromCoordinates(c.x, c.y)

\* preposition with every shift of one step, whatever the extent
prepositionOneStep(target, prepositionalPhrase) ==
    LET name == prepositionalPhrase.preposition
    IN CASE name \in {"UP", "NORTH", "TOP"} -> fromCoords(shift(coords(target), 0, -1))
         [] name \in {"DOWN", "SOUTH", "BOTTOM", "BELOW"} ->
                fromCoords(shift(coords(target), 0, 1))
         [] name \in {"RIGHT", "EAST"} -> fromCoords(shift(coords(target), 1, 0))
         [] name \in {"LEFT", "WEST"} -> fromCoords(shift(coords(target), -1, 0))
         [] name = "OVER" -> fromCoords(coords(target))
         [] OTHER -> target

\* KCL.Director.Target.prototype.preposition of the scene director; LEFT
\* and WEST fall through to OVER
preposition(target, prepositionalPhrase) ==
    LET name == prepositionalPhrase.preposition
        e == extent(prepositionalPhrase)
    IN CASE name \in {"UP", "NORTH", "TOP"} -> fromCoords(shift(coords(target), 0, -e))
         [] name \in {"DOWN", "SOUTH", "BOTTOM", "BELOW"} ->
                fromCoords(shift(coords(target), 0, e))
         [] name \in {"RIGHT", "EAST"} -> fromCoords(shift(coords(target), e, 0))
         [] name \in {"LEFT", "WEST"} ->
                fromCoords(coords(fromCoords(shift(coords(target), -e, 0))))
         [] name = "OVER" -> fromCoords(coords(target))
         [] OTHER -> target

\* move, Init branch: one actor of the each
moveStart(S, r, actor, persist) ==
    LET d1 == actionState(r.d, actor) IN
    IF isGroup(S, actor) THEN [d |-> d1, thrown |-> TRUE]
    ELSE [r EXCEPT !.d = [d1 EXCEPT !.as[at(d1, actor)].persist = persist,
                                    !.as[at(d1, actor)].status = "running"]]

RECURSIVE moveStartEach(_, _, _, _)
moveStartEach(S, r, actors, persist) ==
    IF actors = <<>> \/ r.thrown THEN r
    ELSE moveStartEach(S, moveStart(S, r, Head(actors), persist), Tail(actors), persist)

\* move, the step of one actor
moveStep(O, r, actor, hasSharedTarget, relativeTarget) ==
    LET d1 == actionState(r.d, actor)
        i == at(d1, actor)
        phrase == Head(d1.prepositions)
        d2 == IF relativeTarget /\ hasAmount(phrase)
              THEN [d1 EXCEPT !.as[i].target = TRUE] ELSE d1
        actionTarget == d2.as[i].target \/ hasSharedTarget
        conditional == d2.hasCondition /\ isValid(d2.condition)
        moved == <<d2.id, actor>> \in O.done
        done == IF actionTarget
                THEN (IF conditional THEN <<d2.id, actor>> \in O.met
                      ELSE moved /\ ~d2.as[i].persist)
                ELSE moved
    IN IF ~actionTarget /\ conditional THEN [d |-> d2, thrown |-> TRUE]
       ELSE [r EXCEPT !.d = IF done THEN [d2 EXCEPT !.as[i].status = "done"] ELSE d2]

RECURSIVE moveEach(_, _, _, _, _)
moveEach(O, r, actors, hasSharedTarget, relativeTarget) ==
    IF actors = <<>> \/ r.thrown THEN r
    ELSE moveEach(O, moveStep(O, r, Head(actors), hasSharedTarget, relativeTarget),
                  Tail(actors), hasSharedTarget, relativeTarget)

\* a move whose FOLLOW keeps shouldWaitOn as it is
moveWaitedOn(S, O, d) ==
    LET init == d.status = "init"
        persist == d.verb = "FOLLOW"
        r1 == IF init
              THEN moveStartEach(S,
                       [d |-> [d EXCEPT !.status = "running"],
                        thrown |-> FALSE],
                       d.actors \o d.with, persist)
              ELSE [d |-> setAll(d, {"triggered"}, "running"), thrown |-> FALSE]
        actors == IF init THEN d.actors \o d.with ELSE actorsWith(d.as, "triggered")
        phrased == r1.d.prepositions # <<>> /\ Head(r1.d.prepositions).active
        phrase == Head(r1.d.prepositions)
        relativeTarget == phrased /\ phrase.targets = <<>> /\ r1.d.targets = <<>>
        d2 == IF phrased /\ phrase.targets # <<>>
              THEN [r1.d EXCEPT !.targets = <<preposition(Head(phrase.targets), phrase)>>]
              ELSE IF relativeTarget
                   THEN [r1.d EXCEPT !.prepositions[1].active = FALSE]
              ELSE r1.d
    IN IF r1.thrown \/ actors = <<>> THEN r1
       ELSE moveEach(O, [d |-> [d2 EXCEPT !.status = "running"], thrown |-> FALSE],
                     actors, d2.targets # <<>>, relativeTarget)

\* the handler move
move(S, O, d) ==
    LET init == d.status = "init"
        persist == d.verb = "FOLLOW"
        r1 == IF init
              THEN moveStartEach(S,
                       [d |-> [d EXCEPT !.status = "running",
                                        !.waitOn = IF persist THEN FALSE ELSE @],
                        thrown |-> FALSE],
                       d.actors \o d.with, persist)
              ELSE [d |-> setAll(d, {"triggered"}, "running"), thrown |-> FALSE]
        actors == IF init THEN d.actors \o d.with ELSE actorsWith(d.as, "triggered")
        phrased == r1.d.prepositions # <<>> /\ Head(r1.d.prepositions).active
        phrase == Head(r1.d.prepositions)
        relativeTarget == phrased /\ phrase.targets = <<>> /\ r1.d.targets = <<>>
        d2 == IF phrased /\ phrase.targets # <<>>
              THEN [r1.d EXCEPT !.targets = <<preposition(Head(phrase.targets), phrase)>>]
              ELSE IF relativeTarget
                   THEN [r1.d EXCEPT !.prepositions[1].active = FALSE]
              ELSE r1.d
    IN IF r1.thrown \/ actors = <<>> THEN r1
       ELSE moveEach(O, [d |-> [d2 EXCEPT !.status = "running"], thrown |-> FALSE],
                     actors, d2.targets # <<>>, relativeTarget)

\* face, Init branch: one actor of the each
faceStart(S, r, actor) ==
    LET d1 == IF r.d.prepositions = <<>> /\ ~hasTarget(r.d)
              THEN LET d0 == actionState(r.d, actor) IN
                   [d0 EXCEPT !.as[at(d0, actor)].status = "done"]
              ELSE r.d
    IN [d |-> d1, thrown |-> isGroup(S, actor)]

RECURSIVE faceStartEach(_, _, _)
faceStartEach(S, r, actors) ==
    IF actors = <<>> \/ r.thrown THEN r
    ELSE faceStartEach(S, faceStart(S, r, Head(actors)), Tail(actors))

\* the handler face
face(S, d) ==
    IF d.status = "init"
    THEN faceStartEach(S, [d |-> [d EXCEPT !.status = "running"], thrown |-> FALSE],
                       d.actors \o d.with)
    ELSE [d |-> setAll(d, {"triggered"}, "done"), thrown |-> FALSE]

\* the state with the direction of r put back
put(S, r) ==
    [S EXCEPT !.dirs[r.d.id] = r.d, !.thrown = r.thrown]

\* an every of wait that holds a WAIT back for Running and Waiting
\* directions only
waitDoneRunning(S) ==
    \A i \in 1..Len(S.scene.directions) :
       S.dirs[S.scene.directions[i]].waitOn
          => S.dirs[S.scene.directions[i]].status \notin {"running", "waiting"}

\* the every of wait over the directions that shouldWaitOn: its callback
\* returns undefined, so it holds only of no direction at all
waitDone(S) ==
    \A i \in 1..Len(S.scene.directions) : ~S.dirs[S.scene.directions[i]].waitOn

\* a wait that raises scene.wait and never lowers it
waitRaises(S, d) ==
    LET d1 == IF d.status = "init" THEN [d EXCEPT !.status = "waiting"] ELSE d
        done == waitDone(S)
    IN IF d.directedTo = Actor
       THEN put(S, [d |-> d1, thrown |-> d.actors \o d.with # <<>>])
       ELSE IF hasTarget(d) THEN put(S, [d |-> d1, thrown |-> TRUE])
       ELSE [S EXCEPT !.dirs[d.id] = IF done THEN [d1 EXCEPT !.status = "done"] ELSE d1,
                      !.scene.wait = @ \/ ~done]

\* the handler wait
wait(S, d) ==
    LET d1 == IF d.status = "init" THEN [d EXCEPT !.status = "waiting"] ELSE d
        done == waitDone(S)
    IN IF d.directedTo = Actor
       THEN put(S, [d |-> d1, thrown |-> d.actors \o d.with # <<>>])
       ELSE IF hasTarget(d) THEN put(S, [d |-> d1, thrown |-> TRUE])
       ELSE [S EXCEPT !.dirs[d.id] = IF done THEN [d1 EXCEPT !.status = "done"] ELSE d1,
                      !.scene.wait = ~done]

\* a halt that ends the Triggered ActionStates only
haltTriggered(S, d) ==
    LET d1 == IF d.status = "init" THEN [d EXCEPT !.status = "running"] ELSE d IN
    IF d.directedTo = Director /\ ~hasTarget(d)
    THEN [S EXCEPT !.dirs = [i \in DOMAIN S.dirs |->
                                IF i = d.id THEN [d1 EXCEPT !.status = "done"]
                                ELSE IF Contains(S.scene.directions, i)
                                     THEN setAll(S.dirs[i], {"triggered"}, "done")
                                ELSE S.dirs[i]]]
    ELSE put(S, [d |-> d1, thrown |-> TRUE])

\* the handler halt
halt(S, d) ==
    LET d1 == IF d.status = "init" THEN [d EXCEPT !.status = "running"] ELSE d IN
    IF d.directedTo = Director /\ ~hasTarget(d)
    THEN [S EXCEPT !.dirs = [i \in DOMAIN S.dirs |->
                                IF i = d.id THEN [d1 EXCEPT !.status = "done"]
                                ELSE IF Contains(S.scene.directions, i)
                                     THEN setAll(S.dirs[i],
                                                 {"init", "running", "triggered", "done"},
                                                 "done")
                                ELSE S.dirs[i]]]
    ELSE put(S, [d |-> d1, thrown |-> TRUE])

\* the handler define
define(S, d) ==
    LET defines == /\ d.directedTo = Director
                   /\ Contains(d.adverbs, "GROUP")
                   /\ d.tokens # <<>>
                   /\ hasTarget(d)
    IN [S EXCEPT !.dirs[d.id].status = "done",
                 !.special = IF defines THEN @ \cup {toUpperCase(Head(d.tokens))}
                             ELSE @]

\* d.getVerb().getHandler().call(this, d)
handler(S, O, i) ==
    LET S1 == [S EXCEPT !.calls = Append(@, i)]
        d == S.dirs[i]
        name == VerbOf(d.verb).handler
    IN CASE name = "move" -> put(S1, move(S1, O, d))
         [] name = "face" -> put(S1, face(S1, d))
         [] name = "wait" -> wait(S1, d)
         [] name = "halt" -> halt(S1, d)
         [] name = "define" -> define(S1, d)

\* an each over directions that calls the handler; a throw ends it
RECURSIVE handlerEach(_, _, _)
handlerEach(S, O, ids) ==
    IF ids = <<>> \/ S.thrown THEN S
    ELSE handlerEach(handler(S, O, Head(ids)), O, Tail(ids))

-----------------------------------------------------------------------------
(* The phases of tick *)

\* SceneDirector.prototype.pendingDirections: the first direction and the
\* async directions that follow it without a gap
RECURSIVE takeAsync(_, _)
takeAsync(S, ids) ==
    IF ids = <<>> \/ ~S.dirs[Head(ids)].async THEN <<>>
    ELSE <<Head(ids)>> \o takeAsync(S, Tail(ids))

\* a pendingDirections that takes every direction of the scene
pendingAll(S) == S.scene.directions

pendingDirections(S) ==
    IF S.scene.directions = <<>> THEN <<>>
    ELSE <<Head(S.scene.directions)>> \o takeAsync(S, Tail(S.scene.directions))

\* SceneDirector.prototype.cleanUpStageDirections
cleanUpStageDirections(S) ==
    LET keeps(i) == S.dirs[i].status # "done" IN
    [S EXCEPT !.scene.commands = SelectSeq(@, keeps)]

\* the verb's actionStateComplete callback, when it has one
actionStateComplete(S, i, actor) ==
    IF VerbOf(S.dirs[i].verb).actionStateComplete
    THEN [S EXCEPT !.completes = Append(@, <<i, actor>>)] ELSE S

\* cleanUpActionStates for one direction: every Done ActionState in order
RECURSIVE cleanUpActionState(_, _)
cleanUpActionState(S, i) ==
    LET done == actorsWith(S.dirs[i].as, "done")
        actor == Head(done)
        S1 == actionStateComplete(S, i, actor)
        d1 == actorDone(S1.dirs[i], actor)
        d2 == IF ~hasAnyActors(d1) THEN [d1 EXCEPT !.status = "done"] ELSE d1
    IN IF done = <<>> THEN S
       ELSE cleanUpActionState(
                [S1 EXCEPT !.queue = [a \in DOMAIN @ |->
                                        IF a = actor THEN Shift(@[a]) ELSE @[a]],
                           !.dirs[i] = d2],
                i)

RECURSIVE cleanUpActionStateEach(_, _)
cleanUpActionStateEach(S, ids) ==
    IF ids = <<>> THEN S
    ELSE cleanUpActionStateEach(cleanUpActionState(S, Head(ids)), Tail(ids))

\* a cleanUpActionStates of the first direction only
cleanUpActionStatesHead(S) ==
    LET started(i) == S.dirs[i].status # "init" IN
    cleanUpActionStateEach(S, SelectSeq(SubSeq(S.scene.directions, 1, 1), started))

\* SceneDirector.prototype.cleanUpActionStates
cleanUpActionStates(S) ==
    LET started(i) == S.dirs[i].status # "init" IN
    cleanUpActionStateEach(S, SelectSeq(pendingDirections(S), started))

\* cleanUpDirections for one Done direction: the callbacks of the
\* ActionStates left, the advance of the actors it is current for, the
\* removal from the scene
RECURSIVE cleanUpDirection(_, _, _)
cleanUpDirection(S, i, actors) ==
    LET actor == Head(actors)
        S1 == actionStateComplete(S, i, actor)
        queued == directions(S1.queue, actor)
    IN IF actors = <<>>
       THEN [S EXCEPT !.scene.directions = Without(@, i)]
       ELSE cleanUpDirection(
                IF queued # <<>> /\ Head(queued) = i
                THEN [S1 EXCEPT !.queue[actor] = Shift(@)] ELSE S1,
                i, Tail(actors))

RECURSIVE cleanUpDirectionEach(_, _)
cleanUpDirectionEach(S, ids) ==
    IF ids = <<>> THEN S
    ELSE cleanUpDirectionEach(
            cleanUpDirection(S, Head(ids),
                [k \in 1..Len(S.dirs[Head(ids)].as) |-> S.dirs[Head(ids)].as[k].actor]),
            Tail(ids))

\* a cleanUpDirections that calls back for the actors of the direction, not
\* for the ActionStates it has left
RECURSIVE cleanUpDirectionActorsEach(_, _)
cleanUpDirectionActorsEach(S, ids) ==
    IF ids = <<>> THEN S
    ELSE cleanUpDirectionActorsEach(
            cleanUpDirection(S, Head(ids), S.dirs[Head(ids)].actors), Tail(ids))

cleanUpDirectionsActors(S) ==
    LET isDone(i) == S.dirs[i].status = "done" IN
    cleanUpDirectionActorsEach(S, SelectSeq(S.scene.directions, isDone))

\* a cleanUpDirections that ends after the first Done direction
cleanUpDirectionsFirst(S) ==
    LET isDone(i) == S.dirs[i].status = "done"
        done == SelectSeq(S.scene.directions, isDone)
    IN cleanUpDirectionEach(S, IF done = <<>> THEN <<>> ELSE <<Head(done)>>)

\* SceneDirector.prototype.cleanUpDirections
cleanUpDirections(S) ==
    LET isDone(i) == S.dirs[i].status = "done" IN
    cleanUpDirectionEach(S, SelectSeq(S.scene.directions, isDone))

\* SceneDirector.prototype.checkDelays: its each has an empty body
checkDelays(S) == S

\* an updateWaiting that ends after the first Waiting direction
updateWaitingFirst(S, O) ==
    LET waiting(i) == S.dirs[i].status = "waiting"
        due == SelectSeq(S.scene.directions, waiting)
    IN handlerEach(S, O, IF due = <<>> THEN <<>> ELSE <<Head(due)>>)

\* SceneDirector.prototype.updateWaiting
updateWaiting(S, O) ==
    LET waiting(i) == S.dirs[i].status = "waiting" IN
    handlerEach(S, O, SelectSeq(S.scene.directions, waiting))

\* an initDirections over every direction of the scene
initDirectionsAll(S, O) ==
    LET isInit(i) == S.dirs[i].status = "init" IN
    handlerEach(S, O, SelectSeq(S.scene.directions, isInit))

\* SceneDirector.prototype.initDirections
initDirections(S, O) ==
    LET isInit(i) == S.dirs[i].status = "init" IN
    handlerEach(S, O, SelectSeq(pendingDirections(S), isInit))

\* SceneDirector.prototype.updateStageDirections
updateStageDirections(S, O) ==
    LET due(i) == S.dirs[i].status \in {"init", "waiting"} IN
    handlerEach(S, O, SelectSeq(S.scene.commands, due))

\* SceneDirector.prototype.tick
tick(S, O) ==
    LET S1 == IF Len(S.scene.directions) > 0
              THEN initDirections(
                       updateWaiting(
                           checkDelays(cleanUpDirections(cleanUpActionStates(
                               cleanUpStageDirections(S)))),
                           O),
                       O)
              ELSE S
    IN IF ~S1.thrown /\ Len(S1.scene.commands) > 0
       THEN updateStageDirections(S1, O) ELSE S1

\* an actorTick without the test of the status of the direction
actorTickAnyStatus(S, actor) ==
    LET queued == directions(S.queue, actor)
        d == S.dirs[Head(queued)]
        d1 == actionState(d, actor)
    IN IF queued # <<>> /\ d1.as[at(d1, actor)].status # "done"
       THEN [S EXCEPT !.dirs[d.id] = [d1 EXCEPT !.status = "waiting",
                                                !.as[at(d1, actor)].status = "triggered"]]
       ELSE S

\* an actorTick without the test of the ActionState
actorTickAlways(S, actor) ==
    LET queued == directions(S.queue, actor)
        d == S.dirs[Head(queued)]
        d1 == actionState(d, actor)
    IN IF queued # <<>> /\ d.status \in {"running", "waiting"}
       THEN [S EXCEPT !.dirs[d.id] = [d1 EXCEPT !.status = "waiting",
                                                !.as[at(d1, actor)].status = "triggered"]]
       ELSE S

\* SceneDirector.prototype.actorTick
actorTick(S, actor) ==
    LET queued == directions(S.queue, actor)
        d == S.dirs[Head(queued)]
        d1 == actionState(d, actor)
    IN IF queued # <<>> /\ d.status \in {"running", "waiting"}
          /\ d1.as[at(d1, actor)].status # "done"
       THEN [S EXCEPT !.dirs[d.id] = [d1 EXCEPT !.status = "waiting",
                                                !.as[at(d1, actor)].status = "triggered"]]
       ELSE S

\* new SceneState()
SceneState == [directions |-> <<>>, commands |-> <<>>, actors |-> <<>>, wait |-> FALSE]

\* SceneDirector.prototype.changeScene: the old SceneState is dropped as it
\* is, neither dispose nor reset is called; the SceneActor of a character
\* (character._actor) and its ActorState stay with the character
changeScene(S) == [S EXCEPT !.scene = SceneState]

-----------------------------------------------------------------------------
(* Bounds and inputs *)

\* directions created before the interpreter issues no further command
MaxDirections == 3

\* the longest generated command, in words
MaxLen == 3

\* the plugin commands the event script issues to the running scene: the
\* command word and the args the host splits off the line
Commands ==
    { <<"DIRECT", <<"PLAYER", "MOVE", "TO", "X">>>>,
      <<"DIRECT", <<"A", "AND", "B", "FACE", "NORTH">>>>,
      <<"DIRECT", <<"A", "FACE">>>>,
      <<"DIRECT", <<"PLAYER", "FOLLOW", "A">>>>,
      <<"DIRECT", <<"PLAYER", "DEFINE">>>>,
      <<"DIRECTOR", <<"WAIT", "ALL">>>>,
      <<"DIRECTOR", <<"HALT", "ALL">>>> }

\* the words of the generated commands
Words ==
    {"PLAYER", "A", "MOVE", "FACE", "TO", "NORTH", "WITH", "THEN", "AND",
     "SLOWLY", "3", "HALT!"}

\* commands of the plugin help and of the documentation, as written
Samples ==
    { "PLAYER AND A TO MOVE TO X WITH B THEN FACE NORTH",
      "PLAYER MOVE WITH B THEN A FACE NORTH",
      "PLAYER TO MOVE TO [3,12]",
      "PLAYER MOVE [3,12]",
      "PLAYER MOVE 3 SPACES NORTH",
      "PLAYER FACE NORTH AND THEN MOVE TO \"x y\"",
      "DEFINE GROUP NAMED G AS A",
      "PLAYER MOVE FOR 3 SECONDS",
      "PLAYER SLOWLY THEN A FACE NORTH",
      "PLAYER TO MOVE TO X THEN FACE NORTH",
      "PLAYER TO MOVE TO X AND THEN FACE NORTH",
      "player  move to x",
      "PLAYER MOVE WHILE A FACE THEN FACE NORTH",
      "PLAYER FACE NORTH WHILE FACE",
      "DEFINE GROUP THEN FACE",
      "PLAYER FACE THEN NORTH",
      "PLAYER MOVE REPEAT 3 TIMES",
      "" }

\* the commands of at most n generated words
RECURSIVE Generated(_)
Generated(n) ==
    IF n = 0 THEN {""}
    ELSE Generated(n - 1)
         \cup {IF s = "" THEN w ELSE s \o " " \o w : s \in Generated(n - 1), w \in Words}

Inputs == Generated(MaxLen) \cup Samples

-----------------------------------------------------------------------------
(* The state machine *)

NoContext == Context(<<>>)

NoDirection == Direction(0, "")

NoLookup == [fn |-> "", word |-> "", value |-> "", thrown |-> FALSE]

NoHistory == [raw |-> "", clause |-> 0, deferred |-> {}, inherited |-> <<>>,
              defaulted |-> {}, mode |-> "", imperative |-> FALSE]

\* the state after new SceneDirector(): an empty scene, PLAYER registered
Init ==
    /\ scene = [directions |-> <<>>, commands |-> <<>>, actors |-> <<>>,
                wait |-> FALSE]
    /\ dirs = <<>>
    /\ queue = <<>>
    /\ special = {"PLAYER"}
    /\ nextId = 1
    /\ crashed = FALSE
    /\ pc = "idle"
    /\ ctx = NoContext
    /\ dir = NoDirection
    /\ hist = NoHistory
    /\ lastOp = "init"
    /\ calls = <<>>
    /\ completes = <<>>
    /\ halted = {}
    /\ completed = {}
    /\ looked = NoLookup

\* the director's state as the operators take it
State ==
    [scene |-> scene, dirs |-> dirs, queue |-> queue, special |-> special,
     nextId |-> nextId, calls |-> <<>>, completes |-> <<>>, thrown |-> FALSE]

\* the directions something still refers to: the scene and the queues
referenced(S) ==
    {i \in DOMAIN S.dirs :
        \/ Contains(S.scene.directions, i)
        \/ Contains(S.scene.commands, i)
        \/ \E a \in DOMAIN S.queue : Contains(S.queue[a], i)}

\* the state an operation leaves
Becomes(S) ==
    /\ scene' = S.scene
    /\ dirs' = [i \in referenced(S) |-> S.dirs[i]]
    /\ queue' = S.queue
    /\ special' = S.special
    /\ nextId' = S.nextId
    /\ calls' = S.calls
    /\ completes' = S.completes
    /\ crashed' = S.thrown

\* a Director-directed command of a verb with no targets (WAIT ALL, HALT ALL)
isAll(d, verb) == d.verb = verb /\ d.directedTo = Director /\ ~hasTarget(d)

\* the <<direction, actor>> steps a tick can ask the host for: the actors of
\* the directions whose move handler the tick may call
steps(S) ==
    {<<i, a>> : i \in {j \in Range(S.scene.directions) :
                         /\ S.dirs[j].status \in {"init", "waiting"}
                         /\ VerbOf(S.dirs[j].verb).handler = "move"},
                a \in DOMAIN S.queue}
    \cap {x \in Range(S.scene.directions) \X DOMAIN S.queue :
            Contains(S.dirs[x[1]].actors \o S.dirs[x[1]].with, x[2])}

\* of those, the steps of directions with a valid condition
conditioned(S) ==
    {x \in steps(S) :
        S.dirs[x[1]].hasCondition /\ isValid(S.dirs[x[1]].condition)}

\* the event script runs one plugin command
PluginCommand(command, args) ==
    /\ ~crashed
    /\ pc = "idle"
    /\ nextId <= MaxDirections
    /\ \E S \in {pluginCommand(State, command, args)} : Becomes(S)
    /\ lastOp' = "pluginCommand"
    /\ UNCHANGED <<pc, ctx, dir, hist, halted, completed, looked>>

\* Game_Interpreter.prototype.update: one tick of the scheduler
Tick(O) ==
    /\ ~crashed
    /\ pc = "idle"
    /\ \E S \in {tick(State, O)} :
          /\ Becomes(S)
          /\ halted' = IF \E k \in 1..Len(S.calls) : isAll(S.dirs[S.calls[k]], "HALT")
                       THEN halted \cup Range(S.scene.directions) ELSE halted
          /\ completed' = completed \cup Range(S.completes)
    /\ lastOp' = "tick"
    /\ UNCHANGED <<pc, ctx, dir, hist, looked>>

\* Game_CharacterBase.prototype.updateStop of a character with a SceneActor
ActorTick(actor) ==
    /\ ~crashed
    /\ pc = "idle"
    /\ ~isGroup(State, actor)
    /\ \E S \in {actorTick(State, actor)} : Becomes(S)
    /\ lastOp' = "actorTick"
    /\ UNCHANGED <<pc, ctx, dir, hist, halted, completed, looked>>

\* Game_Interpreter.prototype.setup: an event script starts on the same map
ChangeScene ==
    /\ ~crashed
    /\ pc = "idle"
    /\ scene # SceneState
    /\ \E S \in {changeScene(State)} : Becomes(S)
    /\ lastOp' = "changeScene"
    /\ UNCHANGED <<pc, ctx, dir, hist, halted, completed, looked>>

Next ==
    \/ \E c \in Commands : PluginCommand(c[1], c[2])
    \/ \E done \in SUBSET steps(State) : \E met \in SUBSET conditioned(State) :
            Tick([done |-> done, met |-> met])
    \/ \E actor \in DOMAIN queue : ActorTick(actor)
    \/ ChangeScene

Spec == Init /\ [][Next]_vars

\* the same with one event script only: the scene is never changed
RunNext ==
    \/ \E c \in Commands : PluginCommand(c[1], c[2])
    \/ \E done \in SUBSET steps(State) : \E met \in SUBSET conditioned(State) :
            Tick([done |-> done, met |-> met])
    \/ \E actor \in DOMAIN queue : ActorTick(actor)

RunSpec == Init /\ [][RunNext]_vars

\* an event script of verbs that do not persist, with the host calling
\* update and updateStop every frame: a tick is taken again and again, every
\* character stops again and again, and the host reports the end of every
\* movement it was asked for
LiveCommands ==
    { <<"DIRECT", <<"PLAYER", "MOVE", "TO", "X">>>>,
      <<"DIRECT", <<"A", "AND", "B", "FACE", "NORTH">>>>,
      <<"DIRECT", <<"B", "FACE", "NORTH">>>>,
      <<"DIRECT", <<"A", "FACE">>>> }

AllDone == [done |-> steps(State), met |-> conditioned(State)]

LiveNext ==
    \/ \E c \in LiveCommands : PluginCommand(c[1], c[2])
    \/ \E done \in SUBSET steps(State) : \E met \in SUBSET conditioned(State) :
            Tick([done |-> done, met |-> met])
    \/ \E actor \in DOMAIN queue : ActorTick(actor)

\* ENABLED <<Tick(AllDone)>>_vars as a state predicate: the tick would
\* change the state
TickChanges ==
    /\ ~crashed
    /\ pc = "idle"
    /\ \E S \in {tick(State, AllDone)} :
          \/ lastOp # "tick"
          \/ scene # S.scene
          \/ dirs # [i \in referenced(S) |-> S.dirs[i]]
          \/ queue # S.queue
          \/ special # S.special
          \/ calls # S.calls
          \/ completes # S.completes
          \/ S.thrown
          \/ ~(Range(S.completes) \subseteq completed)
          \/ \E k \in 1..Len(S.calls) :
                /\ isAll(S.dirs[S.calls[k]], "HALT")
                /\ ~(Range(S.scene.directions) \subseteq halted)

\* the next tick calls the handler of the direction again
StepAsked(i) == Contains(scene.directions, i) /\ dirs[i].status = "waiting"

\* WF_vars(Tick(AllDone)): update is called every frame
FairTicks == []<>(~TickChanges) \/ []<><<Tick(AllDone)>>_vars

\* SF_vars(StepAsked(i) /\ Tick(AllDone)) for every direction: a handler
\* that is called again and again has a step that reports the end
FairSteps ==
    \A i \in 1..MaxDirections :
       \/ <>[](~(StepAsked(i) /\ TickChanges))
       \/ []<><<StepAsked(i) /\ Tick(AllDone)>>_vars

LiveSpec ==
    /\ Init
    /\ [][LiveNext]_vars
    /\ FairTicks
    /\ FairSteps
    /\ \A actor \in {"PLAYER", "A", "B"} : WF_vars(ActorTick(actor))

\* an event script that has the player follow an event, directs other
\* actors and waits for all of them, under the same host
WaitCommands ==
    { <<"DIRECT", <<"PLAYER", "FOLLOW", "A">>>>,
      <<"DIRECT", <<"PLAYER", "MOVE", "TO", "X">>>>,
      <<"DIRECT", <<"A", "FACE", "NORTH">>>>,
      <<"DIRECTOR", <<"WAIT", "ALL">>>> }

WaitNext ==
    \/ \E c \in WaitCommands : PluginCommand(c[1], c[2])
    \/ \E done \in SUBSET steps(State) : \E met \in SUBSET conditioned(State) :
            Tick([done |-> done, met |-> met])
    \/ \E actor \in DOMAIN queue : ActorTick(actor)

WaitSpec ==
    /\ Init
    /\ [][WaitNext]_vars
    /\ FairTicks
    /\ FairSteps
    /\ \A actor \in {"PLAYER", "A", "B"} : WF_vars(ActorTick(actor))

-----------------------------------------------------------------------------
(* SceneDirector.direct step by step, on one command line from Init *)

\* the locals of Director.prototype.parse at the top of its loop
Parsing == [c |-> ctx, d |-> dir, unknown |-> FALSE, thrown |-> FALSE]

\* parse has left its loop and returns the direction
Returned == pc = "parse" /\ ~parseLoops(Parsing)

\* the iteration at hand is the ADVERB case deferring its token
defersInAdverb ==
    /\ ~isFiller(ctx)
    /\ contextSwitch(ctx).state = "adverb"
    /\ ~Contains(VerbOf(dir.verb).adverbs, current(contextSwitch(ctx)))

\* the iteration at hand is the DEFAULT case with a token that is no target
\* or comes behind a target
reachesDefault ==
    /\ ~isFiller(ctx)
    /\ contextSwitch(ctx).state = "default"
    /\ (hasTarget(dir) \/ ~isTarget(getTarget(current(contextSwitch(ctx)))))

\* the iteration at hand is the VERB case at a token with the marker !
markedInVerb ==
    /\ ~isFiller(ctx)
    /\ contextSwitch(ctx).state = "verb"
    /\ endsWithBang(current(ctx))

\* the iteration at hand is the DEFAULT case deferring its token
defersInDefault == reachesDefault /\ ~isDeferred(contextSwitch(ctx))

\* pluginCommand up to the loop of parse: fromPluginArgs, direct, the head
\* of parse
Begin(raw, directedTo) ==
    /\ ~crashed
    /\ pc = "idle"
    /\ lastOp = "init"
    /\ IF fromStringThrows(raw)
       THEN crashed' = TRUE /\ pc' = "end" /\ UNCHANGED <<ctx, dir>>
       ELSE \E p \in {parseBegin(directBegin([Context(fromString(raw))
                                     EXCEPT !.directedTo = directedTo]), nextId)} :
               /\ ctx' = p.c
               /\ dir' = p.d
               /\ pc' = "parse"
               /\ crashed' = FALSE
    /\ hist' = [raw |-> raw, clause |-> 1, deferred |-> {}, inherited |-> <<>>,
                defaulted |-> {}, mode |-> directedTo, imperative |-> FALSE]
    /\ lastOp' = "begin"
    /\ UNCHANGED <<scene, dirs, queue, special, nextId, calls, completes, halted,
                   completed, looked>>

\* one iteration of the loop of parse
ParseStep ==
    /\ pc = "parse"
    /\ parseLoops(Parsing)
    /\ \E p \in {parseIter(Parsing)} :
          /\ ctx' = p.c
          /\ dir' = p.d
          /\ crashed' = p.thrown
          /\ pc' = IF p.thrown THEN "end" ELSE "parse"
    /\ hist' = [hist EXCEPT !.deferred = IF defersInAdverb THEN @ \cup {current(ctx)}
                                         ELSE @,
                            !.defaulted = IF defersInDefault THEN @ \cup {current(ctx)}
                                          ELSE @,
                            !.imperative = @ \/ markedInVerb]
    /\ lastOp' = "step"
    /\ UNCHANGED <<scene, dirs, queue, special, nextId, calls, completes, halted,
                   completed, looked>>

\* direct after parse: the direction is assigned and the line is used up
Assign ==
    /\ Returned
    /\ directAssigns(Parsing)
    /\ ~hasMore(ctx)
    /\ \E S \in {assign([State EXCEPT !.nextId = @ + 1], dir)} : Becomes(S)
    /\ pc' = "end"
    /\ lastOp' = "assign"
    /\ UNCHANGED <<ctx, dir, hist, halted, completed, looked>>

\* direct after parse: the direction is assigned and direct runs again on
\* the slice, up to the loop of its parse
Chain ==
    /\ Returned
    /\ directAssigns(Parsing)
    /\ hasMore(ctx)
    /\ \E S \in {assign([State EXCEPT !.nextId = @ + 1], dir)} :
          /\ Becomes(S)
          /\ \E p \in {parseBegin(directBegin(slice(ctx)), S.nextId)} :
                ctx' = p.c /\ dir' = p.d
    /\ pc' = "parse"
    /\ hist' = [hist EXCEPT !.clause = @ + 1, !.deferred = {}, !.defaulted = {},
                            !.imperative = FALSE, !.inherited = ctx.actors]
    /\ lastOp' = "chain"
    /\ UNCHANGED <<halted, completed, looked>>

\* direct after parse: the direction is dropped with a warning
Discard ==
    /\ Returned
    /\ ~directAssigns(Parsing)
    /\ pc' = "end"
    /\ lastOp' = "discard"
    /\ UNCHANGED <<scene, dirs, queue, special, nextId, crashed, ctx, dir, hist,
                   calls, completes, halted, completed, looked>>

ParseNext ==
    \/ \E raw \in Inputs : \E directedTo \in {Actor, Director} : Begin(raw, directedTo)
    \/ ParseStep
    \/ Assign
    \/ Chain
    \/ Discard

ParseSpec == Init /\ [][ParseNext]_vars

\* the loop of parse is at an iteration
Looping == pc = "parse" /\ parseLoops(Parsing)

\* ENABLED <<ParseStep>>_vars as a state predicate: the iteration at hand
\* changes the state
StepChanges ==
    /\ Looping
    /\ \E p \in {parseIter(Parsing)} :
          \/ lastOp # "step"
          \/ ctx # p.c
          \/ dir # p.d
          \/ p.thrown
          \/ (defersInAdverb /\ current(ctx) \notin hist.deferred)
          \/ (defersInDefault /\ current(ctx) \notin hist.defaulted)
          \/ (markedInVerb /\ ~hist.imperative)

\* WF_vars(ParseStep): the interpreter runs the loop of parse on
FairParse == []<>(~StepChanges) \/ []<><<ParseStep>>_vars

ParseLiveSpec == Init /\ [][ParseNext]_vars /\ FairParse

-----------------------------------------------------------------------------
(* The registry of the Director, called by a script or another plugin *)

\* the words looked up: registered names, aliases and words never registered
LookupWords ==
    Words \cup {"WALKS", "HEAD", "TURN", "OVER", "AWAY", "G", "X", "NOBODY", "player"}

\* one call of getVerb, getPreposition or getSpecialTarget
Lookup(fn, word) ==
    /\ ~crashed
    /\ pc = "idle"
    /\ \E r \in {IF fn = "getVerb" THEN [value |-> getVerb(word), thrown |-> FALSE]
                  ELSE IF fn = "getPreposition"
                       THEN [value |-> getPreposition(word), thrown |-> FALSE]
                  ELSE getSpecialTarget(special, word)} :
          /\ looked' = [fn |-> fn, word |-> word, value |-> r.value, thrown |-> r.thrown]
          /\ crashed' = r.thrown
    /\ lastOp' = "lookup"
    /\ UNCHANGED <<scene, dirs, queue, special, nextId, pc, ctx, dir, hist, calls,
                   completes, halted, completed>>

\* one call of defineSpecialTarget
DefineSpecialTarget(name) ==
    /\ ~crashed
    /\ pc = "idle"
    /\ special' = defineSpecialTarget(special, name)
    /\ lastOp' = "define"
    /\ UNCHANGED <<scene, dirs, queue, nextId, crashed, pc, ctx, dir, hist, calls,
                   completes, halted, completed, looked>>

\* the phrases built through the constructor, setAmount and setUnit
LookupAmounts == {"", "0", "1", "3", "12", "many"}

LookupUnits == PrepositionalUnits \cup {"", "MILES"}

PhraseOf(name, amt, unit) ==
    With(PrepositionalPhrase(name),
         LAMBDA p : setUnit(IF amt = "" THEN p ELSE setAmount(p, amt), unit))

\* one call of PrepositionalPhrase.prototype.extent
Extent(amt, unit) ==
    /\ ~crashed
    /\ pc = "idle"
    /\ \E phrase \in {PhraseOf("NORTH", amt, unit)} :
          looked' = [fn |-> "extent", phrase |-> phrase, value |-> extent(phrase)]
    /\ lastOp' = "extent"
    /\ UNCHANGED <<scene, dirs, queue, special, nextId, crashed, pc, ctx, dir, hist,
                   calls, completes, halted, completed>>

\* the receivers: fixed coordinates and the player
LookupTargets ==
    {fromCoordinates(4, 5), fromCoordinates(0, 0), fromActor("PLAYER")}

\* one call of Target.prototype.preposition
Preposition(target, name, amt, unit) ==
    /\ ~crashed
    /\ pc = "idle"
    /\ \E phrase \in {PhraseOf(name, amt, unit)} :
          \* the method assigns no field of this: the receiver after the call
          \* is the receiver before it
          looked' = [fn |-> "preposition", receiver |-> target, phrase |-> phrase,
                     value |-> preposition(target, phrase), after |-> target]
    /\ lastOp' = "preposition"
    /\ UNCHANGED <<scene, dirs, queue, special, nextId, crashed, pc, ctx, dir, hist,
                   calls, completes, halted, completed>>

LookupNext ==
    \/ \E amt \in LookupAmounts : \E unit \in LookupUnits : Extent(amt, unit)
    \/ \E target \in LookupTargets : \E name \in Range(prepositions) :
          \E amt \in {"", "2", "3"} : \E unit \in {"STEPS", "METERS"} :
             Preposition(target, name, amt, unit)
    \/ \E fn \in {"getVerb", "getPreposition", "getSpecialTarget"} :
          \E word \in LookupWords : Lookup(fn, word)
    \/ \E name \in {"G", "a"} : DefineSpecialTarget(name)

LookupSpec == Init /\ [][LookupNext]_vars

-----------------------------------------------------------------------------
(* Properties of the scheduler, checked under Spec *)

\* the directions of the scene, as records
Listed(ds, sc) == {ds[sc.directions[k]] : k \in 1..Len(sc.directions)}

\* a direction that by the documented contract holds a WAIT ALL back
Blocks(d) == d.waitOn /\ d.status \in {"init", "running", "waiting"}

\* C1: a Director-directed WAIT ALL never becomes Done while some direction
\* in the scene whose shouldWaitOn() is true is still Init, Running or
\* Waiting
C1_WaitNeverEarly ==
    [][\A w \in DOMAIN dirs \cap DOMAIN dirs' :
          (/\ isAll(dirs[w], "WAIT")
           /\ dirs[w].status # "done"
           /\ dirs'[w].status = "done")
          => \A d \in Listed(dirs', scene') : ~Blocks(d)]_vars

\* a WAIT ALL became Done in a tick with a direction still in the scene
C1_Witness ==
    /\ lastOp = "tick"
    /\ scene.directions # <<>>
    /\ \E w \in Range(calls) : isAll(dirs[w], "WAIT") /\ dirs[w].status = "done"

\* C2: whenever the handler of a Director-directed WAIT ALL runs and every
\* direction in the scene either is Done or has shouldWaitOn() false, the
\* WAIT is Done in that invocation and scene.wait is cleared. The handler
\* looked at is the last one the tick has called, so that the scene it saw
\* is the scene the tick leaves
C2_WaitIffBlocking ==
    (lastOp = "tick" /\ ~crashed /\ calls # <<>>)
    => LET w == calls[Len(calls)] IN
          (isAll(dirs[w], "WAIT") /\ \A d \in Listed(dirs, scene) : ~Blocks(d))
          => (dirs[w].status = "done" /\ ~scene.wait)

\* C3: once DIRECTOR HALT ALL is issued while a MOVE direction is Running,
\* the ActionStates of that direction are all Done before the next tick
C3_HaltImmediate ==
    lastOp = "pluginCommand"
    => \A h \in Range(scene.commands) : \A m \in Range(scene.directions) :
          (/\ isAll(dirs[h], "HALT")
           /\ dirs[h].status = "init"
           /\ VerbOf(dirs[m].verb).handler = "move"
           /\ dirs[m].status = "running")
          => \A k \in 1..Len(dirs[m].as) : dirs[m].as[k].status = "done"

\* C4: after the handler of a Director-directed HALT with no targets has
\* run, every ActionState of every direction in scene.directions is Done
\* and the HALT itself is Done
C4_HaltAllDone ==
    lastOp = "tick"
    => \A h \in Range(calls) :
          isAll(dirs[h], "HALT")
          => /\ dirs[h].status = "done"
             /\ \A d \in Listed(dirs, scene) :
                   \A k \in 1..Len(d.as) : d.as[k].status = "done"

\* a HALT ALL ran in a tick over a started direction with ActionStates
C4_Witness ==
    /\ lastOp = "tick"
    /\ \E h \in Range(calls) : isAll(dirs[h], "HALT")
    /\ \E d \in Listed(dirs, scene) : d.status = "running" /\ Len(d.as) > 0

\* C5: a direction that was in scene.directions when a HALT ALL handler ran
\* is never dispatched to its verb handler in a later tick
C5_HaltedNeverDispatched ==
    [][\A i \in halted : ~Contains(calls', i)]_vars

-----------------------------------------------------------------------------
(* Properties of the parser and of direct, checked under ParseSpec *)

\* the line of the WITH example, and its clauses as parse returns them
WithExample == "PLAYER AND A TO MOVE TO X WITH B THEN FACE NORTH"

ParsedAs(raw, clause) ==
    Returned /\ hist.raw = raw /\ hist.clause = clause /\ dir.directedTo = Actor

\* the chained clause opens with the name of an actor
NamesActor == getActor(current(ctx)) # ""

\* C6: WITH does not chain. DIRECT PLAYER AND A TO MOVE TO X WITH B THEN FACE
\* NORTH gives a MOVE direction of PLAYER and A with B, then a FACE direction
\* of PLAYER and A with nobody, and nothing after it. A chained direction
\* starts with an empty with-list; it starts with the actors the context has
\* accumulated when the clause does not open with an actor's name, and with
\* no actor when it does.
C6_WithDoesNotChain ==
    /\ ParsedAs(WithExample, 1)
          => /\ dir.verb = "MOVE"
             /\ dir.actors = <<"PLAYER", "A">>
             /\ dir.with = <<"B">>
             /\ hasMore(ctx)
    /\ ParsedAs(WithExample, 2)
          => /\ dir.verb = "FACE"
             /\ dir.actors = <<"PLAYER", "A">>
             /\ dir.with = <<>>
             /\ ~hasMore(ctx)
             /\ dir.id = 2
    /\ lastOp = "chain"
          => /\ dir.with = <<>>
             /\ hist.inherited = ctx.actors
             /\ dir.actors = IF NamesActor THEN <<>> ELSE ctx.actors

\* the FACE direction of the example is returned after a MOVE direction that
\* had a WITH actor
C6_Witness ==
    /\ ParsedAs(WithExample, 2)
    /\ dir.actors = <<"PLAYER", "A">>
    /\ 1 \in DOMAIN dirs
    /\ dirs[1].with = <<"B">>

\* C6 as stated: every chained direction starts with exactly the actors
\* accumulated by the preceding clause and none of its WITH actors
C6_AlwaysInherits ==
    lastOp = "chain" => (dir.actors = hist.inherited /\ dir.with = <<>>)

\* C7: DIRECT PLAYER TO MOVE TO [3,12] yields one direction with the player
\* as its only actor, the verb MOVE and the one target (3,12)
C7_CoordinateTarget ==
    ParsedAs("PLAYER TO MOVE TO [3,12]", 1)
       => /\ dir.actors = <<"PLAYER">>
          /\ dir.verb = "MOVE"
          /\ dir.targets = <<fromCoordinates(3, 12)>>
          /\ ~hasMore(ctx)

\* C8: when parse returns the direction of an actor, every token the ADVERB
\* state deferred in this clause that resolves as a target is among the
\* direction's targets
C8_DeferredRecovered ==
    (Returned /\ dir.directedTo = Actor /\ hasActor(dir)) =>
       \A t \in hist.deferred :
          isTarget(getTarget(t)) => Contains(dir.targets, getTarget(t))

\* C9: when parse returns, no token is left in the deferred buffer
C9_NoneStranded == Returned => ctx.deferred = <<>>

\* the direction parse returned has no verb, or is actor-directed and has no
\* actor
Fails == ~hasVerb(dir) \/ (ctx.directedTo = Actor /\ ~hasActor(dir))

\* C10: direct discards a direction without a verb, and an actor-directed one
\* without an actor: scene.directions, scene.commands, the directions held
\* and every actor's queue stay as they are and nothing is thrown
C10_Discarded ==
    [][(Returned /\ Fails)
          => /\ scene' = scene
             /\ queue' = queue
             /\ dirs' = dirs
             /\ ~crashed'
             /\ pc' = "end"
             /\ directParsed(State, Parsing) = State]_vars

\* an actor-directed direction with a verb and no actor was discarded
C10_Witness ==
    /\ lastOp = "discard"
    /\ ~crashed
    /\ hasVerb(dir)
    /\ ctx.directedTo = Actor
    /\ ~hasActor(dir)

\* the clause direct would parse next: the slice of the context, parsed
NextClause == parseRun(parseBegin(directBegin(slice(ctx)), nextId))

\* C11: when direct has discarded a clause of a chained command, no
\* well-formed clause of the command is left unparsed behind it
C11_SiblingsParsed ==
    (lastOp = "discard" /\ hasMore(ctx)) => ~directAssigns(NextClause)

\* a sequence without a repeated element
NoRepeat(s) == \A j, k \in 1..Len(s) : s[j] = s[k] => j = k

Started(i) ==
    /\ lastOp' = "tick"
    /\ i \in Range(scene.directions)
    /\ dirs[i].status = "init"
    /\ Contains(calls', i)

\* a direction assigned earlier to an actor of direction i that the tick
\* leaves unfinished in the scene
EarlierUnfinished(j, i) ==
    /\ j < i
    /\ j \in Range(scene'.directions)
    /\ dirs'[j].status # "done"
    /\ \E a \in Range(dirs[i].actors) : Contains(dirs[j].actors, a)

\* C13 as stated: no direction is started for an actor while a direction
\* assigned to that actor earlier is still unfinished
C13_PerActorFifo ==
    [][\A i \in Range(scene.directions) :
          Started(i) => \A j \in Range(scene.directions) : ~EarlierUnfinished(j, i)]_vars

\* C13: directions are started in the order of assignment; one that is not
\* async is started only as the first direction of the scene, so that no
\* direction assigned earlier, of its actors or of others, is unfinished; an
\* async one is started only behind the first direction and async ones
C13_SceneFifo ==
    [][\A i \in Range(scene.directions) :
          Started(i)
          => /\ \A j \in Range(scene'.directions) : j < i => dirs'[j].status # "init"
             /\ ~dirs[i].async
                   => /\ i = Head(scene'.directions)
                      /\ \A j \in Range(scene.directions) : ~EarlierUnfinished(j, i)
             /\ dirs[i].async
                   => \A k \in 2..Len(scene'.directions) :
                         scene'.directions[k] <= i => dirs'[scene'.directions[k]].async]_vars

\* a tick has started a direction that is not async after an earlier
\* direction of the same actor had left the scene
C13_Witness ==
    /\ lastOp = "tick"
    /\ \E i \in Range(calls) \cap Range(scene.directions) :
          /\ ~dirs[i].async
          /\ i > 1
          /\ dirs[i].status # "init"
          /\ \E a \in Range(dirs[i].actors) : <<1, a>> \in completed

\* C14: after a scene change no actor's queue holds a direction of the
\* previous scene: every queued direction is in the directions of the scene
C14_QueuesOfScene ==
    lastOp = "changeScene"
       => \A a \in DOMAIN queue : \A i \in Range(queue[a]) : Contains(scene.directions, i)

\* the chaining example of the plugin help, with THEN and with AND THEN
ThenExample == "PLAYER TO MOVE TO X THEN FACE NORTH"

AndThenExample == "PLAYER TO MOVE TO X AND THEN FACE NORTH"

\* the two directions of the example: PLAYER's MOVE to X, with more to come,
\* then PLAYER's FACE, with nothing to come
Decomposes(raw) ==
    /\ ParsedAs(raw, 1)
          => /\ dir.actors = <<"PLAYER">>
             /\ dir.verb = "MOVE"
             /\ dir.targets = <<fromActor("X")>>
             /\ dir.prepositions = <<>>
             /\ hasMore(ctx)
    /\ ParsedAs(raw, 2)
          => /\ dir.actors = <<"PLAYER">>
             /\ dir.verb = "FACE"
             /\ ~hasMore(ctx)

\* C15: DIRECT PLAYER TO MOVE TO X AND THEN FACE NORTH decomposes like the
\* command with THEN alone: a MOVE of PLAYER to X, then a FACE of PLAYER
C15_AndThenChains == Decomposes(AndThenExample)

\* the words of a line split at blanks, empty words dropped
RECURSIVE splitWords(_, _, _)
splitWords(s, i, word) ==
    IF i > Len(s) THEN (IF word = "" THEN <<>> ELSE <<word>>)
    ELSE IF Ch(s, i) = " "
         THEN (IF word = "" THEN <<>> ELSE <<word>>) \o splitWords(s, i + 1, "")
    ELSE splitWords(s, i + 1, word \o Ch(s, i))

\* a line made only of simple words: letters, digits and underscores
IsSimple(s) ==
    /\ splitWords(s, 1, "") # <<>>
    /\ \A i \in 1..Len(s) :
          Ch(s, i) = " " \/ (IsWordChar(Ch(s, i)) /\ Ch(s, i) \notin {"#", "!"})

\* the tokens of a line of simple words are its words, uppercased, in order
SimpleWordsSplit ==
    (lastOp = "begin" /\ IsSimple(hist.raw))
       => /\ ~crashed
          /\ ctx.args = [k \in 1..Len(splitWords(hist.raw, 1, "")) |->
                            toUpperCase(splitWords(hist.raw, 1, "")[k])]

\* a double-quoted string with a blank in it is one token
QuotedIsOneToken ==
    (lastOp = "begin" /\ hist.raw = "PLAYER FACE NORTH AND THEN MOVE TO \"x y\"")
       => Len(ctx.args) = 8 /\ ctx.args[8] = "\"X Y\""

\* a bracketed coordinate group is one token
BracketIsOneToken ==
    (lastOp = "begin" /\ hist.raw = "PLAYER TO MOVE TO [3,12]")
       => Len(ctx.args) = 5 /\ ctx.args[5] = "[3,12]"

\* C16: a line of simple words is tokenized into its words uppercased, and a
\* bracketed coordinate group and a double-quoted string are one token each
C16_Tokenization == SimpleWordsSplit /\ QuotedIsOneToken /\ BracketIsOneToken

\* the word is registered under the function looked up
Registered(fn, word) ==
    \/ fn = "getVerb" /\ verbIndex(word) # {}
    \/ fn = "getPreposition" /\ Contains(prepositions, word)
    \/ fn = "getSpecialTarget" /\ word \in special

\* C17: a lookup of getVerb, getPreposition or getSpecialTarget never throws:
\* on a miss it returns undefined; and it leaves the registry as it was
C17_LookupsNeverThrow ==
    [][lastOp' = "lookup"
          => /\ ~looked'.thrown
             /\ ~Registered(looked'.fn, looked'.word) => looked'.value = ""
             /\ special' = special]_vars

\* the conversion factor of a unit: 3 for METER and METERS, 1 for every other
Factor(unit) == IF unit \in {"METER", "METERS"} THEN 3 ELSE 1

\* C18: extent() is the amount times the conversion factor of the unit when
\* an amount was supplied, and 1 when none was
C18_Extent ==
    lastOp = "extent"
        => looked.value = IF looked.phrase.amount # NoAmount
                          THEN looked.phrase.amount * Factor(looked.phrase.unit)
                          ELSE 1

C18_Witness ==
    /\ lastOp = "extent"
    /\ looked.phrase.amount = 3
    /\ looked.phrase.unit = "METERS"
    /\ looked.value = 9

\* a new Target at the coordinates of the receiver moved by dx, dy
NewTargetAt(receiver, dx, dy) ==
    [kind |-> "coords", actor |-> "",
     x |-> coords(receiver).x + dx, y |-> coords(receiver).y + dy]

C20_OnePerActor ==
    \A i \in DOMAIN dirs :
       \A a, b \in Range(dirs[i].actors) :
          (a # b /\ hasActionState(dirs[i], a) /\ hasActionState(dirs[i], b))
             => /\ at(dirs[i], a) # at(dirs[i], b)
                /\ dirs[i].as[at(dirs[i], a)].actor = a
                /\ dirs[i].as[at(dirs[i], b)].actor = b

-----------------------------------------------------------------------------
(* Properties of the queues and the phases of tick, checked under RunSpec  *)
(* and Spec                                                                *)

\* the actor is bound to the direction, as an actor or a WITH actor
Bound(i, a) == Contains(dirs[i].actors \o dirs[i].with, a)

\* the queue of an actor holds directions of the scene bound to the actor,
\* in assignment order, and every direction of the actor not yet started
QueueOfUnfinished ==
    \A a \in DOMAIN queue :
       /\ \A k \in 1..Len(queue[a]) :
             Contains(scene.directions, queue[a][k]) /\ Bound(queue[a][k], a)
       /\ \A j, k \in 1..Len(queue[a]) : j < k => queue[a][j] < queue[a][k]
       /\ \A i \in Range(scene.directions) :
             (dirs[i].status = "init" /\ Bound(i, a)) => Contains(queue[a], i)

\* an entry that a tick takes from the queue of an actor is a direction that
\* held an ActionState of this actor
RetiresOwnEntry ==
    [][(lastOp' = "tick" /\ ~crashed')
          => \A a \in DOMAIN queue :
                \A i \in Range(queue[a]) :
                   ~Contains(queue'[a], i)
                      => \E k \in 1..Len(dirs[i].as) : dirs[i].as[k].actor = a]_vars

\* C21: after any sequence of assigns, ticks, actorTicks and HALTs the queue
\* of every actor is the sequence, in assignment order, of the directions
\* assigned to it that it has not finished, and the entry a cleanup takes
\* from the queue of an actor is the direction whose ActionState it retires
C21_QueueConsistent == []QueueOfUnfinished /\ RetiresOwnEntry

\* C22: under fair ticks and actorTicks, with every movement reported ended,
\* every direction put in scene.directions is started, reaches Done and is
\* in the end removed from scene.directions
C22_Progress ==
    \A i \in 1..MaxDirections :
       Contains(scene.directions, i) ~> ~Contains(scene.directions, i)

\* the pending prefix of a scene: pendingDirections over its directions
Prefix(sc, ds) == pendingDirections([scene |-> sc, dirs |-> ds])

\* C23: only the pending prefix of scene.directions is started: a handler
\* of a direction that is not async is invoked only while the direction is
\* the first of scene.directions, and every started direction of the scene
\* is inside the pending prefix until it is removed
C23_PendingPrefix ==
    [][~crashed'
          => /\ \A i \in Range(scene'.directions) :
                   dirs'[i].status # "init" => Contains(Prefix(scene', dirs'), i)
             /\ lastOp' = "tick"
                   => \A i \in Range(calls') \cap Range(scene'.directions) :
                         /\ Contains(Prefix(scene', dirs'), i)
                         /\ ~dirs'[i].async => i = Head(scene'.directions)]_vars

\* a tick has called the handler of the first direction, not async, while a
\* started async direction and a direction not yet started are behind it
C23_Witness ==
    /\ lastOp = "tick"
    /\ Len(scene.directions) = 3
    /\ Contains(calls, scene.directions[1])
    /\ ~dirs[scene.directions[1]].async
    /\ dirs[scene.directions[2]].async
    /\ dirs[scene.directions[2]].status # "init"
    /\ ~dirs[scene.directions[3]].async
    /\ dirs[scene.directions[3]].status = "init"

\* the <<direction, place>> pairs of the Done ActionStates of the started
\* directions of the scene
DoneStates(S) ==
    {x \in Range(S.scene.directions) \X (1..3) :
        /\ S.dirs[x[1]].status # "init"
        /\ x[2] <= Len(S.dirs[x[1]].as)
        /\ S.dirs[x[1]].as[x[2]].status = "done"}

\* the phase has retired the Done ActionStates of S0 and left S1
Retired(S0, S1) ==
    /\ DoneStates(S1) = {}
    /\ \A x \in DoneStates(S0) :
          LET i == x[1]
              as == S0.dirs[i].as[x[2]]
          IN /\ VerbOf(S0.dirs[i].verb).actionStateComplete
                   => Contains(S1.completes, <<i, as.actor>>)
             /\ ~\E k \in 1..Len(S1.dirs[i].as) : S1.dirs[i].as[k].key = as.key
             /\ S1.dirs[i].as = <<>> => S1.dirs[i].status = "done"
    /\ \A a \in DOMAIN S0.queue :
          LET n == Cardinality({x \in DoneStates(S0) : S0.dirs[x[1]].as[x[2]].actor = a})
          IN Len(S1.queue[a]) = IF Len(S0.queue[a]) > n THEN Len(S0.queue[a]) - n ELSE 0
    /\ \A i \in Range(S0.scene.directions) :
          (\A k \in 1..3 : <<i, k>> \notin DoneStates(S0)) => S1.dirs[i] = S0.dirs[i]

\* C24: after the cleanUpActionStates phase of a tick no started direction
\* keeps a Done ActionState: for each of them the completion callback was
\* called, the queue of its actor advanced and the ActionState removed, and
\* a direction left without ActionStates is Done
C24_ActionStatesRetired ==
    (~crashed /\ pc = "idle" /\ scene.directions # <<>>)
        => Retired(cleanUpStageDirections(State),
                   cleanUpActionStates(cleanUpStageDirections(State)))

\* a tick has left two started directions of the scene with a Done
\* ActionState each, for the next tick to retire
C24_Witness ==
    /\ lastOp = "tick"
    /\ ~crashed
    /\ Cardinality({x[1] : x \in DoneStates(State)}) = 2

\* the state of a tick when its cleanUpDirections phase begins
AtCleanUpDirections == cleanUpActionStates(cleanUpStageDirections(State))

\* the directions of the scene that are Done in S
DoneDirections(S) == {i \in Range(S.scene.directions) : S.dirs[i].status = "done"}

\* cleanUpDirections has taken S0 to S1: the Done directions have left the
\* scene, and an actor of an ActionState of one of them that had it as its
\* current direction no longer has
Removed(S0, S1) ==
    /\ \A i \in DoneDirections(S0) : ~Contains(S1.scene.directions, i)
    /\ \A i \in Range(S0.scene.directions) \ DoneDirections(S0) :
          Contains(S1.scene.directions, i)
    /\ \A i \in DoneDirections(S0) :
          \A k \in 1..Len(S0.dirs[i].as) :
             LET a == S0.dirs[i].as[k].actor IN
             (directions(S0.queue, a) # <<>> /\ Head(directions(S0.queue, a)) = i)
                => /\ Len(S1.queue[a]) < Len(S0.queue[a])
                   /\ S1.queue[a] # <<>> => Head(S1.queue[a]) # i

\* a started direction of the scene set to Done with its ActionStates left,
\* as a handler that ends the direction itself leaves it
EndedAttached(i) == [AtCleanUpDirections EXCEPT !.dirs[i].status = "done"]

C26_DoneCommandsRemoved ==
    [][(lastOp' = "tick" /\ ~crashed')
          => \A i \in Range(scene.commands) :
                dirs[i].status = "done" => ~Contains(scene'.commands, i)]_vars

\* the same for the ticks of a scene that holds a direction of an actor
C26_RemovedWithDirections ==
    [][(lastOp' = "tick" /\ ~crashed' /\ scene.directions # <<>>)
          => \A i \in Range(scene.commands) :
                dirs[i].status = "done" => ~Contains(scene'.commands, i)]_vars

\* the actor has a current direction that is Running or Waiting and its
\* ActionState for it is not Done
Answers(a) ==
    /\ queue[a] # <<>>
    /\ dirs[Head(queue[a])].status \in {"running", "waiting"}
    /\ hasActionState(dirs[Head(queue[a])], a)
          => dirs[Head(queue[a])].as[at(dirs[Head(queue[a])], a)].status # "done"

\* the step has set the current direction of the actor to Waiting and its
\* ActionState to Triggered, and nothing else
Handshake(a) ==
    LET i == Head(queue[a]) IN
    /\ dirs'[i].status = "waiting"
    /\ hasActionState(dirs'[i], a)
    /\ dirs'[i].as[at(dirs'[i], a)].status = "triggered"
    /\ \A k \in 1..Len(dirs[i].as) :
          dirs[i].as[k].key # id(a) => dirs'[i].as[k] = dirs[i].as[k]
    /\ \A j \in DOMAIN dirs \ {i} : dirs'[j] = dirs[j]

\* C27: actorTick sets the current direction of the actor to Waiting and
\* its ActionState to Triggered when the direction is Running or Waiting
\* and the ActionState is not Done, and changes no status in any other case
C27_Handshake ==
    [][lastOp' = "actorTick"
          => \E a \in DOMAIN queue :
                IF Answers(a) THEN Handshake(a) ELSE dirs' = dirs]_vars

\* an actorTick has answered the current direction of the player, which is
\* Waiting with the ActionState Triggered, while the current direction of
\* an event is Running and not answered
C27_Witness ==
    /\ lastOp = "actorTick"
    /\ "PLAYER" \in DOMAIN queue
    /\ queue["PLAYER"] # <<>>
    /\ dirs[Head(queue["PLAYER"])].status = "waiting"
    /\ dirs[Head(queue["PLAYER"])].as # <<>>
    /\ dirs[Head(queue["PLAYER"])].as[1].status = "triggered"
    /\ \E a \in DOMAIN queue \ {"PLAYER"} :
          queue[a] # <<>> /\ dirs[Head(queue[a])].status = "running"

\* the state of a tick after its cleanup phases
AfterCleanUp == cleanUpDirections(AtCleanUpDirections)

\* C28 as stated: in a tick of a scene that holds a direction the handler is
\* called for every direction that is Waiting and for every direction that
\* is Init after the cleanup phases
C28_EveryInitDispatched ==
    [][(lastOp' = "tick" /\ ~crashed' /\ scene.directions # <<>>)
          => \A i \in Range(AfterCleanUp.scene.directions) :
                AfterCleanUp.dirs[i].status \in {"waiting", "init"}
                   => Contains(calls', i)]_vars

\* C28: in a tick of a scene that holds a direction the handler is called
\* for every direction that is Waiting after the cleanup phases and for
\* every Init direction of the pending prefix, and for no other direction
C28_PendingInitDispatched ==
    [][(lastOp' = "tick" /\ ~crashed' /\ scene.directions # <<>>)
          => \A i \in Range(AfterCleanUp.scene.directions) :
                Contains(calls', i)
                   <=> \/ AfterCleanUp.dirs[i].status = "waiting"
                       \/ /\ AfterCleanUp.dirs[i].status = "init"
                          /\ Contains(pendingDirections(AfterCleanUp), i)]_vars

\* a tick has called the handlers of two directions of the scene and left
\* an Init direction behind them uncalled
C28_Witness ==
    /\ lastOp = "tick"
    /\ ~crashed
    /\ Len(calls) = 2
    /\ \A i \in Range(calls) : Contains(scene.directions, i)
    /\ \E j \in Range(scene.directions) : dirs[j].status = "init" /\ ~Contains(calls, j)

-----------------------------------------------------------------------------
(* Properties of assign, checked under ParseSpec *)

\* how many times actor a stands in the list
Times(list, a) == Cardinality({k \in 1..Len(list) : list[k] = a})

NoDuplicateActors == \A a \in Range(scene.actors) : Times(scene.actors, a) = 1

\* the direction just parsed goes to scene.directions, to the tail of the
\* queue of each of its actors and WITH actors, and these are scene actors
RoutedToDirections ==
    /\ scene'.directions = Append(scene.directions, dir.id)
    /\ scene'.commands = scene.commands
    /\ \A a \in Range(dir.actors \o dir.with) :
          /\ directions(queue', a) # <<>>
          /\ directions(queue', a)[Len(directions(queue', a))] = dir.id
          /\ Times(scene'.actors, a) = 1

RoutedToCommands ==
    /\ scene'.commands = Append(scene.commands, dir.id)
    /\ scene'.directions = scene.directions
    /\ scene'.actors = scene.actors
    /\ queue' = queue

\* C29: a parsed direction that is assigned goes to scene.directions iff
\* it has a bound actor and its context is directed to an actor, and to
\* scene.commands otherwise; in the first case it is at the tail of the
\* queue of every bound actor and WITH actor, each of them is in
\* scene.actors exactly once, and scene.actors never holds duplicates
C29_Routing ==
    /\ []NoDuplicateActors
    /\ [][nextId' # nextId
            => IF dir.actors # <<>> /\ ctx.directedTo = Actor
               THEN RoutedToDirections
               ELSE RoutedToCommands]_vars

\* a direction was assigned with a WITH actor, which joined the scene and
\* has the direction in its queue, and an actor of the scene was assigned
\* a second direction
C29_Witness ==
    /\ \E i \in Range(scene.directions) :
          \E a \in Range(dirs[i].with) :
             /\ ~Contains(dirs[i].actors, a)
             /\ Contains(scene.actors, a)
             /\ Contains(directions(queue, a), i)
    /\ \E a \in Range(scene.actors) : Len(directions(queue, a)) > 1

-----------------------------------------------------------------------------
(* Properties of the Done status, checked under Spec *)

\* the Done directions of S are Done in T, and so are the Done ActionStates
\* of S that T keeps
StaysDone(S, T) ==
    \A i \in DOMAIN S.dirs \cap DOMAIN T.dirs :
       /\ S.dirs[i].status = "done" => T.dirs[i].status = "done"
       /\ \A j \in 1..Len(S.dirs[i].as) :
             S.dirs[i].as[j].status = "done"
                => \A k \in 1..Len(T.dirs[i].as) :
                      T.dirs[i].as[k].actor = S.dirs[i].as[j].actor
                         => T.dirs[i].as[k].status = "done"

\* updateStageDirections, run as tick runs it
CommandsKeepDone(S, O) ==
    (~S.thrown /\ Len(S.scene.commands) > 0) => StaysDone(S, updateStageDirections(S, O))

\* updateWaiting and initDirections on S, the state after checkDelays
HandlersKeepDone(S, O) ==
    With(updateWaiting(S, O),
         LAMBDA S1 :
            /\ StaysDone(S, S1)
            /\ With(initDirections(S1, O),
                    LAMBDA S2 : StaysDone(S1, S2) /\ CommandsKeepDone(S2, O)))

\* the cleanup phases and checkDelays on S
CleanUpKeepsDone(S) ==
    With(cleanUpStageDirections(S),
         LAMBDA S1 :
            /\ StaysDone(S, S1)
            /\ With(cleanUpActionStates(S1),
                    LAMBDA S2 :
                       /\ StaysDone(S1, S2)
                       /\ With(cleanUpDirections(S2),
                               LAMBDA S3 :
                                  /\ StaysDone(S2, S3)
                                  /\ StaysDone(S3, checkDelays(S3)))))

\* every phase of the tick that can be taken in this state keeps Done
PhasesKeepDone ==
    (~crashed /\ pc = "idle")
       => \A done \in SUBSET steps(State) : \A met \in SUBSET conditioned(State) :
             IF Len(scene.directions) > 0
             THEN /\ CleanUpKeepsDone(State)
                  /\ HandlersKeepDone(
                         checkDelays(cleanUpDirections(cleanUpActionStates(
                             cleanUpStageDirections(State)))),
                         [done |-> done, met |-> met])
             ELSE CommandsKeepDone(State, [done |-> done, met |-> met])

\* C30: a direction that is Done never takes another status, and an
\* ActionState that is Done never takes another status while it is kept:
\* not in a step of the program, and not in a phase of a tick
C30_DoneAbsorbing == []PhasesKeepDone /\ [][StaysDone(State, State')]_vars

\* actorTick has run while the current direction of one actor is Done and
\* the current direction of another, not Done itself, keeps the Done
\* ActionState of this actor
C30_Witness ==
    /\ lastOp = "actorTick"
    /\ \E a \in DOMAIN queue :
          queue[a] # <<>> /\ dirs[Head(queue[a])].status = "done"
    /\ \E a \in DOMAIN queue :
          /\ queue[a] # <<>>
          /\ dirs[Head(queue[a])].status \in {"running", "waiting"}
          /\ \E j \in 1..Len(dirs[Head(queue[a])].as) :
                /\ dirs[Head(queue[a])].as[j].actor = a
                /\ dirs[Head(queue[a])].as[j].status = "done"

-----------------------------------------------------------------------------
(* Properties of WAIT ALL beside a FOLLOW, checked under WaitSpec *)

\* a direction other than a FOLLOW is in the scene
OthersRemain == \E i \in Range(scene.directions) : dirs[i].verb # "FOLLOW"

\* the command j is a WAIT ALL that has not ended
WaitPending(j) ==
    /\ Contains(scene.commands, j)
    /\ isAll(dirs[j], "WAIT")
    /\ dirs[j].status # "done"

WaitOver(j) == j \in DOMAIN dirs /\ dirs[j].status = "done" /\ ~scene.wait

\* C31: unless a direction other than a FOLLOW stays in the scene for ever,
\* a WAIT ALL of the Director becomes Done and scene.wait false
C31_FollowDoesNotBlockWait ==
    \/ <>[]OthersRemain
    \/ \A j \in 1..MaxDirections : WaitPending(j) ~> WaitOver(j)

\* a WAIT ALL has ended in a tick while a FOLLOW is Running in the scene,
\* after another direction was finished and removed
C31_Witness ==
    /\ lastOp = "tick"
    /\ ~scene.wait
    /\ \E j \in Range(scene.commands) : isAll(dirs[j], "WAIT") /\ dirs[j].status = "done"
    /\ \E i \in Range(scene.directions) :
          dirs[i].verb = "FOLLOW" /\ dirs[i].status = "running"
    /\ ~OthersRemain
    /\ completed # {}

-----------------------------------------------------------------------------
(* Properties of the loop of parse, checked under ParseLiveSpec and ParseSpec *)

\* C32: the loop of parse ends: from every iteration parse comes to its
\* return, in the state END or at the end of the tokens, or to an exception
C32_ParseTerminates ==
    Looping ~> ((Returned /\ (ctx.state = "end" \/ ~hasMore(ctx))) \/ crashed)

\* parse has returned at the end of the tokens after a token was deferred
\* and put back into the tokens
C32_Witness ==
    /\ Returned
    /\ ~hasMore(ctx)
    /\ hist.deferred # {}
    /\ lastOp = "step"

-----------------------------------------------------------------------------
(* Properties of scene.wait, checked under Spec *)

\* the command j of scene sc is a WAIT of the Director with this status
WaitWith(sc, ds, j, status) ==
    /\ Contains(sc.commands, j)
    /\ ds[j].verb = "WAIT"
    /\ ds[j].directedTo = Director
    /\ ds[j].status = status

\* C33: at the end of a tick scene.wait is true iff a WAIT of the Director
\* in scene.commands is Waiting, and the tick in which the handler sets a
\* WAIT to Done leaves scene.wait false
C33_WaitFlag ==
    [][(lastOp' = "tick" /\ ~crashed')
          => /\ scene'.wait
                  <=> \E j \in 1..MaxDirections : WaitWith(scene', dirs', j, "waiting")
             /\ \A j \in Range(calls') :
                   (WaitWith(scene, dirs, j, "waiting") /\ WaitWith(scene', dirs', j, "done"))
                      => ~scene'.wait]_vars

\* a tick has left a WAIT of the Director Waiting and scene.wait true
C33_Witness ==
    /\ lastOp = "tick"
    /\ scene.wait
    /\ \E j \in 1..MaxDirections : WaitWith(scene, dirs, j, "waiting")

-----------------------------------------------------------------------------
(* Properties of the clauses of a line, checked under ParseSpec *)

\* the word that ended the clause parse has returned from in the state END
Terminator == IF ctx.index >= 1 /\ ctx.index <= Len(ctx.args) THEN ctx.args[ctx.index] ELSE ""

\* parse has returned in END and the line goes on
ClauseEnded == Returned /\ ctx.state = "end" /\ hasMore(ctx)

\* C34: a clause that WHILE has ended leaves parse in END with the async
\* request of the Context set, and a clause ended otherwise leaves it not
\* set; the direction of the next clause is async from the head of its
\* parse iff the request is set, the request is cleared there, and a
\* direction becomes async later only by the default of its verb
C34_WhileRequestsAsync ==
    /\ [](ClauseEnded => (ctx.requestAsync <=> Terminator = "WHILE"))
    /\ [][lastOp' = "chain" => (dir'.async <=> ctx.requestAsync) /\ ~ctx'.requestAsync]_vars
    /\ [][(lastOp' = "step" /\ dir'.async # dir.async)
             => dir.verb = "" /\ dir'.verb # "" /\ VerbOf(dir'.verb).defaultAsync]_vars

\* the second clause, behind WHILE, was assigned async and the third,
\* behind THEN, has been parsed and is not async
C34_Witness ==
    /\ Returned
    /\ hist.clause = 3
    /\ 2 \in DOMAIN dirs
    /\ dirs[2].async
    /\ ~dirs[1].async
    /\ dir.verb # ""
    /\ ~dir.async

-----------------------------------------------------------------------------
(* Properties of the cases of parse, checked under ParseSpec *)

\* C35 as stated: DEFAULT defers a token it sees for the first time, and a
\* token that comes to DEFAULT again after DEFAULT has deferred it is put
\* on the unknown list of the Context and not deferred again
C35_SecondChanceOnce ==
    [][lastOp' = "step" /\ ~crashed' /\ reachesDefault
          => IF current(ctx) \in hist.defaulted
             THEN /\ Contains(ctx'.unknown, current(ctx))
                  /\ ~Contains(ctx'.deferred, current(ctx))
             ELSE Contains(ctx'.deferred, current(ctx))]_vars

\* what the code does: DEFAULT defers the token every time it comes
C35_DefersEveryTime ==
    [][lastOp' = "step" /\ ~crashed' /\ reachesDefault
          => Contains(ctx'.deferred, current(ctx)) /\ ctx'.unknown = ctx.unknown]_vars

\* the switches DEFINE declares, "" for none
DefineSwitch(table, word) ==
    CASE table = "default" /\ word = "NAMED" -> "token"
      [] table = "token" /\ word = "AS" -> "target"
      [] OTHER -> ""

\* the state the lookup of the token at hand is to give: the table is that
\* of the state, DEFAULT's for ADVERB; the entry of the verb of the
\* direction goes before the global one; without an entry the state stays
SwitchedState ==
    LET table == IF ctx.state = "adverb" THEN "default" ELSE ctx.state
        own == IF dir.verb = "DEFINE" THEN DefineSwitch(table, current(ctx)) ELSE ""
        global == ContextSwitches(table, current(ctx))
    IN IF own # "" THEN own ELSE IF global # "" THEN global ELSE ctx.state

\* C36: contextSwitch takes the table of the current state, DEFAULT's for
\* ADVERB; under DEFINE, NAMED switches DEFAULT and ADVERB to TOKEN and AS
\* switches TOKEN to TARGET, and the global entries apply besides; under
\* the other verbs and without a verb the global entries apply alone
C36_SwitchLookup ==
    (Looping /\ ~isFiller(ctx)) => contextSwitch(ctx).state = SwitchedState

\* under DEFINE the loop is in ADVERB at THEN, which the global table of
\* DEFAULT switches to END
C36_Witness ==
    /\ Looping
    /\ dir.verb = "DEFINE"
    /\ ctx.state = "adverb"
    /\ current(ctx) = "THEN"
    /\ contextSwitch(ctx).state = "end"

\* the token at hand without its imperative marker
Bare(word) == IF endsWithBang(word) THEN SubSeq(word, 1, Len(word) - 1) ELSE word

\* the loop is at the first token of a chained context, in VERB, and the
\* token is neither a verb nor an actor
Elliptical ==
    /\ Looping
    /\ ctx.chained
    /\ ctx.index = 0
    /\ ctx.state = "verb"
    /\ ~isFiller(ctx)
    /\ getVerb(Bare(current(ctx))) = ""
    /\ getActor(Bare(current(ctx))) = ""

\* C37: at the first token of a chained context, neither verb nor actor,
\* the direction takes the verb of the clause before, the token stays the
\* current one for the next iteration, and the direction has the actors
\* carried over from the clause before
C37_EllipticalVerb ==
    [][(Elliptical /\ lastOp' = "step")
          => /\ nextId - 1 \in DOMAIN dirs
             /\ dir'.verb = dirs[nextId - 1].verb
             /\ dir'.verb # ""
             /\ ctx'.index = ctx.index
             /\ current(ctx') = Bare(current(ctx))
             /\ ~ctx'.retry
             /\ dir'.actors = hist.inherited]_vars

\* PLAYER FACE THEN NORTH: the second clause is a FACE of PLAYER with the
\* preposition NORTH
C37_Witness ==
    /\ Returned
    /\ hist.raw = "PLAYER FACE THEN NORTH"
    /\ hist.clause = 2
    /\ dir.verb = "FACE"
    /\ dir.actors = <<"PLAYER">>
    /\ Len(dir.prepositions) = 1
    /\ dir.prepositions[1].preposition = "NORTH"

\* C38: in VERB a token that ends in ! is looked up without the marker and
\* turns the Context to the Director; a direction of a line that began
\* directed to an actor, parsed from a clause with such a token, goes to
\* scene.commands and to the queue of no actor, whatever actors it has
C38_ImperativeMarker ==
    /\ [][(Looping /\ markedInVerb /\ lastOp' = "step")
             => /\ ctx'.directedTo = Director
                /\ ctx'.args[ctx.index + 1] = Bare(current(ctx))
                /\ getVerb(Bare(current(ctx))) # ""
                      => dir'.verb = getVerb(Bare(current(ctx)))]_vars
    /\ [][(nextId' # nextId /\ hist.mode = Actor /\ hist.imperative)
             => RoutedToCommands]_vars

\* PLAYER HALT! was begun directed to an actor and its direction, with the
\* actor PLAYER, is in scene.commands and PLAYER has no queue
C38_Witness ==
    /\ lastOp = "assign"
    /\ hist.mode = Actor
    /\ hist.imperative
    /\ \E j \in Range(scene.commands) : dirs[j].verb = "HALT" /\ dirs[j].actors # <<>>
    /\ scene.directions = <<>>
    /\ \A a \in DOMAIN queue : queue[a] = <<>>

\* the iteration at hand is the DURATION or the REPEAT case
inMicroGrammar ==
    /\ Looping
    /\ ~isFiller(ctx)
    /\ contextSwitch(ctx).state \in {"duration", "repeat"}

\* C39 as stated: behind FOR or REPEAT the next token is the amount and the
\* one after it the unit; the iterations of DURATION and REPEAT raise no
\* error and take the next token, and the duration is set on the direction
\* only at the unit, the second token behind FOR
C39_AmountThenUnit ==
    [][(inMicroGrammar /\ lastOp' = "step")
          => /\ ~crashed'
             /\ ctx'.index = ctx.index + 1
             /\ (dir'.hasDuration /\ ~dir.hasDuration)
                   => (ctx.index >= 2 /\ ctx.args[ctx.index - 1] = "FOR")]_vars

\* what the code does: the switch word opens the phrase, and the token
\* behind it raises an exception
C39_AmountThrows ==
    [][(inMicroGrammar /\ lastOp' = "step")
          => IF contextSwitch(ctx).data = "null"
             THEN ~crashed' /\ ctx'.data \in {"duration", "repeat"} /\ ~dir'.hasDuration
             ELSE crashed']_vars

\* the case of the iteration at hand asks for a retry
Requested ==
    /\ ~isFiller(ctx)
    /\ stateCase([Parsing EXCEPT !.c = contextSwitch(ctx)]).c.retry

\* the case of the iteration at hand is ACTOR, TARGET or WITH before an AND
SkipsAnd ==
    /\ ~isFiller(ctx)
    /\ \E c \in {contextSwitch(ctx)} :
          /\ hasNext(c)
          /\ next(c) = "AND"
          /\ c.state \in {"actor", "target"} \/ (c.state = "with" /\ c.data # "null")

\* an iteration of the loop that raises no exception
Iterates == Looping /\ lastOp' = "step" /\ ~crashed'

\* C40 as stated: the index never decreases; an iteration moves it on by
\* one unless a retry was requested; a retry holds back one advance and is
\* then cleared
C40_OneAdvance ==
    [][Iterates
          => /\ ~ctx.retry /\ ~ctx'.retry
             /\ ctx'.index = IF Requested THEN ctx.index ELSE ctx.index + 1]_vars

\* C40: the index never decreases; an iteration moves it on by one, or by
\* two when ACTOR, TARGET or WITH skips the AND that follows, unless a
\* retry was requested; a retry holds back the advance of its iteration
\* and is then cleared
C40_Monotonic ==
    [][Iterates
          => /\ ~ctx.retry /\ ~ctx'.retry
             /\ ctx'.index >= ctx.index
             /\ ctx'.index = IF Requested THEN ctx.index
                             ELSE IF SkipsAnd THEN ctx.index + 2
                             ELSE ctx.index + 1]_vars

\* in one clause DEFAULT has deferred a token, which asks for a retry, and
\* the loop has gone over an AND it skipped
C40_Witness ==
    /\ lastOp = "step"
    /\ ~crashed
    /\ hist.defaulted # {}
    /\ ctx.index >= 2
    /\ ctx.index <= Len(ctx.args)
    /\ ctx.args[ctx.index] = "AND"

=============================================================================
